---- MODULE Spec2Model ----
(***************************************************************************)
(* HotSpot trace-level thermal simulator (hotspot.c): the driver main(),   *)
(* the memory-mapped checkpoint store (load/save/flush/unload) and the     *)
(* power-trace readers, as a state machine over a sequence of invocations  *)
(* that share one working directory (the checkpoint file and the           *)
(* temperature trace file).                                                *)
(*                                                                         *)
(* Doubles are modelled as integers modulo TMod (exact values; the         *)
(* checkpoint stores raw doubles, so no rounding happens there).  The      *)
(* 32-bit global trace_num is declared unsigned in util.h; it is held as   *)
(* the signed integer with the same bit pattern and compared with the      *)
(* unsigned operators below.                                               *)
(***************************************************************************)
EXTENDS Integers, Sequences, FiniteSets, TLC

(* ------------------------------ bounds -------------------------------- *)
\* number of invocations the orchestrator makes on one directory
MaxInvocations == 3
\* temperatures and powers are integers modulo TMod
TMod == 5

(* ------------------------- program constants -------------------------- *)
MAGIC_MMAP_FILE == 1213222212
\* package nodes appended to the state vector (temperature.h)
EXTRA == 12
EXTRA_SEC == 16
MinInt32 == -2147483647 - 1
MaxInt32 == 2147483647

(* --------------------------- small helpers ---------------------------- *)
RECURSIVE SumLens(_)
SumLens(ls) == IF ls = <<>> THEN 0 ELSE Len(Head(ls).units) + SumLens(Tail(ls))

Zeros(k) == [i \in 1..k |-> 0]

\* unsigned 32-bit comparisons on bit patterns held as signed integers
U32Less(a, b) == IF (a >= 0) = (b >= 0) THEN a < b ELSE b < 0
\* trace_num <= 0, trace_num > 0, trace_num == c with trace_num unsigned
TraceNumLeZero(t) == ~U32Less(0, t)
TraceNumGtZero(t) == U32Less(0, t)
\* trace_num - 1 in 32-bit wrapping arithmetic
TraceNumMinus1(t) == IF t = MinInt32 THEN MaxInt32 ELSE t - 1

(* ------------------------- thermal model (grid) ----------------------- *)
\* A grid model as main() sees it after alloc_RC_model: the layer stack
\* (each layer with its has_power flag and the unit names of its floorplan),
\* the grid dimensions, model_secondary and the initial-temperature source
\* (init_file = <<>> stands for NULLFILE).
StackXYZ == << [has_power |-> TRUE,  units |-> <<"X", "Y">>],
               [has_power |-> TRUE,  units |-> <<"Z">>],
               [has_power |-> FALSE, units |-> <<"Z">>] >>

ModelA == [layers |-> StackXYZ, rows |-> 1, cols |-> 2,
           model_secondary |-> FALSE, init_temp |-> 3, init_file |-> <<>>]
\* the grid of ModelA turned by 90 degrees, initial temperatures from init_file
ModelB == [layers |-> StackXYZ, rows |-> 2, cols |-> 1,
           model_secondary |-> FALSE, init_temp |-> 3, init_file |-> <<1>>]
\* ModelA with the secondary heat path modelled
ModelC == [layers |-> StackXYZ, rows |-> 1, cols |-> 2,
           model_secondary |-> TRUE, init_temp |-> 3, init_file |-> <<>>]

N_layers(m) == Len(m.layers)
Total_n_blocks(m) == SumLens(m.layers)
Cells(m) == N_layers(m) * m.rows * m.cols

\* hotspot.c 875-880: the num_extra main() passes to save
ExtraNodes(m) == IF m.model_secondary THEN EXTRA + EXTRA_SEC ELSE EXTRA
\* hotspot.c 177-181: length of last_temp
TotalNodes(m) == IF m.model_secondary
                   THEN Total_n_blocks(m) + EXTRA + EXTRA_SEC
                   ELSE Total_n_blocks(m) + EXTRA

\* hotspot.c 744-749: n, the number of units of the power dissipating layers
RECURSIVE PowerUnits(_)
PowerUnits(ls) ==
  IF ls = <<>> THEN 0
  ELSE (IF Head(ls).has_power THEN Len(Head(ls).units) ELSE 0) + PowerUnits(Tail(ls))

\* base and count as the permutation loops of main() keep them (802-811):
\* base advances over every layer, count over the power layers only
LayerBase(m, l) == SumLens(SubSeq(m.layers, 1, l - 1))
LayerCount(m, l) == PowerUnits(SubSeq(m.layers, 1, l - 1))

\* get_blk_index (flp.c): index of the unit called name, 0-based; -1 when
\* the floorplan has no such unit (the function is fatal there)
get_blk_index(units, name) ==
  IF \E i \in 1..Len(units) : units[i] = name
    THEN (CHOOSE i \in 1..Len(units) : units[i] = name) - 1
    ELSE -1

(* --------------------------- checkpoint file -------------------------- *)
\* A file is its 6-int header and the doubles that follow it.
NoFile == [exists |-> FALSE, hdr |-> <<>>, data |-> <<>>]

\* the heap cuboid double*** of a model, every cell v
NewCuboid(m, v) ==
  [l \in 1..N_layers(m) |-> [r \in 1..m.rows |-> [c \in 1..m.cols |-> v]]]

RECURSIVE FlattenRows(_, _, _)
\* rows r..rows of layer plane pl, in the order the inner loop of save writes
FlattenRows(pl, r, rows) ==
  IF r > rows THEN <<>> ELSE pl[r] \o FlattenRows(pl, r + 1, rows)

RECURSIVE FlattenLayers(_, _, _, _)
FlattenLayers(cub, l, layers, rows) ==
  IF l > layers THEN <<>>
  ELSE FlattenRows(cub[l], 1, rows) \o FlattenLayers(cub, l + 1, layers, rows)

\* what fwrite(ptr, 8, k, f) takes from a vector of doubles
Take(v, k) == SubSeq(v, 1, k)

\* variant of save that writes the extra nodes before the cuboid
SaveFile_ExtraFirst(m, tn, num_extra, cub, ex, temp) ==
  [exists |-> TRUE,
   hdr    |-> << MAGIC_MMAP_FILE, tn, N_layers(m), m.rows, m.cols, num_extra >>,
   data   |-> Take(ex, num_extra)
              \o FlattenLayers(cub, 1, N_layers(m), m.rows)
              \o Take(temp, TotalNodes(m))]

\* save_last_trans_temp_mmap (148-185): the file written from scratch
SaveFile(m, tn, num_extra, cub, ex, temp) ==
  [exists |-> TRUE,
   hdr    |-> << MAGIC_MMAP_FILE, tn, N_layers(m), m.rows, m.cols, num_extra >>,
   data   |-> FlattenLayers(cub, 1, N_layers(m), m.rows)
              \o Take(ex, num_extra)
              \o Take(temp, TotalNodes(m))]

\* variant of flush that syncs without storing the trace index
FlushHeader_NoIndex(f, tn) == f

\* flush_updated_last_trans_temp (190-191): header[1] = trace_num
FlushHeader(f, tn) == [f EXCEPT !.hdr[2] = tn]

\* variant of the header test that looks at the trace index only
HeaderValid_IndexOnly(f, tn) == f.hdr[2] = TraceNumMinus1(tn)

\* load_last_trans_temp_mmap, the header test of lines 110-115
HeaderValid(f, tn) ==
  /\ f.hdr[1] = MAGIC_MMAP_FILE
  /\ f.hdr[2] = TraceNumMinus1(tn)

\* variant of the grid test that compares the number of cells only
GridMatches_CellCount(f, m) == f.hdr[3] * f.hdr[4] * f.hdr[5] = Cells(m)

\* load_last_trans_temp_mmap, the grid test of lines 117-124
GridMatches(f, m) ==
  /\ f.hdr[3] = N_layers(m)
  /\ f.hdr[4] = m.rows
  /\ f.hdr[5] = m.cols

\* variant of the row views with the row index scaled by rows instead of cols
CuboidRowOffset_RowStride(f, l, r) == (l - 1) * f.hdr[4] * f.hdr[5] + (r - 1) * f.hdr[4]

\* the views of lines 126-144, as offsets (in doubles) into the data section:
\* cuboid[l][r] = &cuboid_flat[(l*rows + r)*cols] with l, r 0-based
CuboidRowOffset(f, l, r) == ((l - 1) * f.hdr[4] + (r - 1)) * f.hdr[5]
ExtraOffset(f) == f.hdr[3] * f.hdr[4] * f.hdr[5]
LastTempOffset(f) == ExtraOffset(f) + f.hdr[6]

LoadViews(f) ==
  [cuboid |-> [l \in 1..f.hdr[3] |-> [r \in 1..f.hdr[4] |-> CuboidRowOffset(f, l, r)]],
   extra  |-> ExtraOffset(f),
   temp   |-> LastTempOffset(f)]

(* ------------------------------ variables ----------------------------- *)
VARIABLES
  ckpt,            \* last_trans_temp_mmap.bin in the working directory
  ttrace,          \* the temperature trace file named by -o (opened "a")
  log,             \* one record per ended invocation: inputs, rows written, exit
  ckpt0,           \* the checkpoint file as it was when the invocation started
  partial,         \* the file holds state advanced by an invocation that aborted
  written,         \* the state the last save took from memory
  pc,              \* position of the running invocation in main()
  trace_num, do_transient, model, ptrace,
  pin,             \* read position of the power trace (index of the next line)
  names, vals, lines, power, overall_power,
  last_temp,       \* model->grid->last_temp
  last_trans,      \* model->grid->last_trans
  temp_initialised,\* read_temp / set_temp has filled last_temp (727-736)
  first_invocation,
  mapped_region, mapped_size,
  mapping_live,    \* the mmap of load is still mapped
  header_written,  \* write_names(tout, ...) was called by this invocation
  calls,           \* checkpoint operations called by this invocation
  exit_code, diag,
  argv,            \* the command line of the process, as name-value pairs
  table,           \* the name-value pairs of main() (command line, then file)
  config_file,     \* the pairs held by the file that -c names
  global_config, volt_vector, volt, thermal_config,
  do_detailed_3D, use_microchannels,
  natural,         \* the package is cooled by natural convection
  stdout,          \* the results the process has printed
  avg_sink_temp,   \* average temperature of the heat sink
  io_failed        \* the file operations of the process that have failed

vars == << ckpt, ttrace, log, ckpt0, partial, written, pc, trace_num, do_transient, model,
           ptrace, pin, names, vals, lines, power, overall_power, last_temp,
           last_trans, temp_initialised, first_invocation, mapped_region,
           mapped_size, mapping_live, header_written, calls, exit_code, diag,
           argv, table, config_file, global_config, volt_vector, volt, thermal_config,
           do_detailed_3D, use_microchannels, natural, stdout, avg_sink_temp, io_failed >>

setupVars == << argv, table, config_file, global_config, volt_vector, volt, thermal_config,
                do_detailed_3D, use_microchannels >>

runVars == << pin, names, vals, lines, power, overall_power, last_temp, last_trans,
              temp_initialised, first_invocation, mapped_region, mapped_size,
              mapping_live, header_written, calls >>

envVars == << ckpt, ttrace, log, ckpt0, partial, written >>

(* ------------------------ memory of the process ----------------------- *)
\* last_temp and last_trans either own heap storage or are views into the
\* mapping (offsets into the data section of the file).
NullVec == [kind |-> "null", v |-> <<>>, off |-> 0]
HeapVec(v) == [kind |-> "heap", v |-> v, off |-> 0]
ViewVec(off) == [kind |-> "mmap", v |-> <<>>, off |-> off]

HeapTrans(cub, ex) ==
  [kind |-> "heap", cuboid |-> cub, extra |-> ex, rowoff |-> <<>>, extraoff |-> 0]
ViewTrans(views) ==
  [kind |-> "mmap", cuboid |-> <<>>, extra |-> <<>>,
   rowoff |-> views.cuboid, extraoff |-> views.extra]

\* a double read through a view: past the end of the file the page reads 0
DataAt(f, i) == IF i \in 1..Len(f.data) THEN f.data[i] ELSE 0

\* the values the process sees as model->last_temp[1..TotalNodes]
TempOf(lt, f, m) ==
  IF lt.kind = "mmap" THEN [i \in 1..TotalNodes(m) |-> DataAt(f, lt.off + i)]
  ELSE lt.v
\* ... as last_trans->cuboid[l][r][c]
CuboidOf(tr, f, m) ==
  IF tr.kind = "mmap"
    THEN [l \in 1..N_layers(m) |-> [r \in 1..m.rows |-> [c \in 1..m.cols |->
            DataAt(f, tr.rowoff[l][r] + c)]]]
    ELSE tr.cuboid
\* ... as last_trans->extra[1..ExtraNodes]
ExtraOf(tr, f, m) ==
  IF tr.kind = "mmap" THEN [i \in 1..ExtraNodes(m) |-> DataAt(f, tr.extraoff + i)]
  ELSE tr.extra

\* every double the solver touches through the views lies inside the file
ViewsInFile(lt, tr, f, m) ==
  /\ lt.kind = "mmap" => lt.off + TotalNodes(m) <= Len(f.data)
  /\ tr.kind = "mmap" =>
       /\ tr.extraoff + ExtraNodes(m) <= Len(f.data)
       /\ \A l \in 1..N_layers(m) : \A r \in 1..m.rows :
             tr.rowoff[l][r] + m.cols <= Len(f.data)

\* the file after the solver stored T, cub, ex through the views (MAP_SHARED:
\* the stores reach the file whether or not msync is called later)
StoreThroughViews(f, lt, tr, m, T, cub, ex) ==
  [f EXCEPT !.data = [i \in 1..Len(f.data) |->
     IF lt.kind = "mmap" /\ i - lt.off \in 1..TotalNodes(m)
       THEN T[i - lt.off]
     ELSE IF tr.kind = "mmap" /\ i - tr.extraoff \in 1..ExtraNodes(m)
       THEN ex[i - tr.extraoff]
     ELSE IF tr.kind = "mmap" /\ \E l \in 1..N_layers(m) : \E r \in 1..m.rows :
                                    i - tr.rowoff[l][r] \in 1..m.cols
       THEN LET l == CHOOSE l \in 1..N_layers(m) : \E r \in 1..m.rows :
                        i - tr.rowoff[l][r] \in 1..m.cols
                r == CHOOSE r \in 1..m.rows : i - tr.rowoff[l][r] \in 1..m.cols
            IN  cub[l][r][i - tr.rowoff[l][r]]
     ELSE f.data[i]]]

(* --------------------------- transient solver ------------------------- *)
\* set_temp: every node at init_temp; read_temp: the values of init_file
set_temp(m) == [i \in 1..TotalNodes(m) |-> m.init_temp % TMod]
read_temp(m) == [i \in 1..TotalNodes(m) |-> (m.init_file[1] + i) % TMod]

\* layer of block index b (1-based over all layers)
LayerOfBlock(m, b) ==
  CHOOSE l \in 1..N_layers(m) :
    b - LayerBase(m, l) \in 1..Len(m.layers[l].units)

RECURSIVE SumSeq(_)
SumSeq(s) == IF s = <<>> THEN 0 ELSE Head(s) + SumSeq(Tail(s))

LayerPower(m, pw, l) ==
  SumSeq(SubSeq(pw, LayerBase(m, l) + 1, LayerBase(m, l) + Len(m.layers[l].units)))

\* compute_temp: one sampling interval, a deterministic function of T_last,
\* cuboid, extra, the power vector and the configuration.  On the first
\* invocation the grid state is taken from T_last; afterwards it is carried
\* in cuboid and extra.  Returns the new T_last, cuboid and extra.
compute_temp(m, T, cub, ex, pw, first) ==
  LET nb   == Total_n_blocks(m)
      cub0 == IF first
                THEN [l \in 1..N_layers(m) |-> [r \in 1..m.rows |-> [c \in 1..m.cols |->
                        T[LayerBase(m, l) + 1]]]]
                ELSE cub
      ex0  == IF first THEN [i \in 1..ExtraNodes(m) |-> T[nb + i]] ELSE ex
      cub1 == [l \in 1..N_layers(m) |-> [r \in 1..m.rows |-> [c \in 1..m.cols |->
                 (cub0[l][r][c] + LayerPower(m, pw, l) + r + 2 * c + ex0[1]) % TMod]]]
      ex1  == [i \in 1..ExtraNodes(m) |-> (ex0[i] + cub0[1][1][1] + i) % TMod]
      T1   == [b \in 1..TotalNodes(m) |->
                 IF b <= nb
                   THEN (T[b] + cub1[LayerOfBlock(m, b)][1][1] + 2 * pw[b]) % TMod
                   ELSE ex1[b - nb]]
  IN  [T |-> T1, cuboid |-> cub1, extra |-> ex1]

(* --------------------------- power trace file ------------------------- *)
\* A trace file is its lines; every line but possibly the last ends in '\n'.
\* A line is its tokens (names on the header line, numbers on a value line)
\* and whether white space precedes the first token.  A blank line has no
\* tokens.
NameLine(ns) == [lead |-> FALSE, names |-> ns, vals |-> <<>>]
ValLine(vs)  == [lead |-> FALSE, names |-> <<>>, vals |-> vs]
BlankLine    == [lead |-> FALSE, names |-> <<>>, vals |-> <<>>]
IsBlank(ln)  == ln.names = <<>> /\ ln.vals = <<>>

\* fgets followed by feof: true when the read hit end of file, which happens
\* when there is no line left and when the line read has no final newline
EofAfterFgets(f, p) == p > Len(f.lines) \/ (p = Len(f.lines) /\ ~f.finalNL)

\* the chopping loops of read_names / read_vals (372-378, 406-412): src
\* advances by the length of the token sscanf found, counted from the start
\* of the line, so with leading white space the first token is read twice
Chop(toks, lead) == IF lead /\ toks # <<>> THEN <<toks[1]>> \o toks ELSE toks

RECURSIVE read_names(_, _)
\* read_names (352-383) from position p: the names and the new position
read_names(f, p) ==
  IF EofAfterFgets(f, p)
    THEN [fatal |-> TRUE, names |-> <<>>, pos |-> p]
  ELSE IF IsBlank(f.lines[p])
    THEN read_names(f, p + 1)
  ELSE [fatal |-> FALSE, names |-> Chop(f.lines[p].names, f.lines[p].lead), pos |-> p + 1]

RECURSIVE read_vals(_, _)
\* read_vals (386-417) from position p: the count returned (0 at end of
\* file), the values and the new position
read_vals(f, p) ==
  IF EofAfterFgets(f, p)
    THEN [num |-> 0, vals |-> <<>>, pos |-> p]
  ELSE IF IsBlank(f.lines[p])
    THEN read_vals(f, p + 1)
  ELSE LET vs == Chop(f.lines[p].vals, f.lines[p].lead)
       IN  [num |-> Len(vs), vals |-> vs, pos |-> p + 1]

\* fprintf("%.2f"): values are held in units of 0.005 K, printed in 0.01 K
Fmt2(v) == (v + 1) \div 2

\* a line of the temperature trace file
OutNames(ns) == [kind |-> "names", names |-> ns, vals |-> <<>>]
OutVals(vs)  == [kind |-> "vals", names |-> <<>>, vals |-> [i \in 1..Len(vs) |-> Fmt2(vs[i])]]

(* --------------------- permutation loops of main() -------------------- *)
\* the columns of the trace that the loop of lines 802-811 looks up in
\* layer l: count+1 .. count+n_units, for power layers only
LayerColumns(m, l) ==
  IF m.layers[l].has_power
    THEN (LayerCount(m, l) + 1)..(LayerCount(m, l) + Len(m.layers[l].units))
    ELSE {}

\* the layer whose floorplan column i is looked up in
LayerOfColumn(m, i) == CHOOSE l \in 1..N_layers(m) : i \in LayerColumns(m, l)

\* power/temperature index (1-based) that column i is mapped to: base + idx
BlockOfColumn(m, nms, i) ==
  LET l == LayerOfColumn(m, i)
  IN  LayerBase(m, l) + get_blk_index(m.layers[l].units, nms[i]) + 1

\* get_blk_index finds every name (otherwise it is fatal: "block not found")
NamesFound(m, nms) ==
  \A i \in 1..PowerUnits(m.layers) :
     get_blk_index(m.layers[LayerOfColumn(m, i)].units, nms[i]) >= 0

\* variant of the permutation that assigns by column position, not by name
PermutePower_ByPosition(m, nms, vs, pw) ==
  [b \in 1..Len(pw) |->
     IF m.layers[LayerOfBlock(m, b)].has_power
       THEN vs[LayerCount(m, LayerOfBlock(m, b)) + b - LayerBase(m, LayerOfBlock(m, b))]
       ELSE pw[b]]

\* lines 802-811: power[base+idx] = vals[count+j]; entries no column maps to
\* keep their value, and of two columns mapped to one entry the later wins
PermutePower(m, nms, vs, pw) ==
  [b \in 1..Len(pw) |->
     LET cs == {i \in 1..PowerUnits(m.layers) : BlockOfColumn(m, nms, i) = b}
     IN  IF cs = {} THEN pw[b]
         ELSE vs[CHOOSE i \in cs : \A k \in cs : k <= i]]

\* lines 837-848: vals[count+j] = last_temp[base+idx]
PermuteBack(m, nms, T) ==
  [i \in 1..PowerUnits(m.layers) |-> T[BlockOfColumn(m, nms, i)]]

\* lines 860-865: overall_power[base+j] += power[base+j] on power layers
Accumulate(m, ov, pw) ==
  [b \in 1..Len(ov) |->
     IF m.layers[LayerOfBlock(m, b)].has_power THEN ov[b] + pw[b] ELSE ov[b]]

\* the double a / n
Quotient(a, n) == [num |-> a, den |-> n]

\* lines 888-902: overall_power[base+j] /= lines on power layers
Average(m, ov, n) ==
  [b \in 1..Len(ov) |->
     IF m.layers[LayerOfBlock(m, b)].has_power
       THEN Quotient(ov[b], n) ELSE Quotient(ov[b], 1)]

\* a line of text on stdout
Message(text) == [kind |-> "message", text |-> text]

(* ------------------- command line and configuration ------------------- *)
NULLFILE == "(null)"
\* char volt_vector[385]; unsigned int volt[128]
VOLT_VECTOR_SIZE == 385
VOLT_SIZE == 128

\* one "-name value" pair of the command line or of the configuration file;
\* dash tells whether the name word starts with '-'
Arg(n, v) == [name |-> n, value |-> v, dash |-> TRUE]

\* sscanf("%d") on an option value: <<the number>>, or <<>> when it fails
ParseInt(v) ==
  CASE v = "-1" -> <<-1>>
    [] v = "0" -> <<0>>
    [] v = "1" -> <<1>>
    [] v = "2" -> <<2>>
    [] v = "3" -> <<3>>
    [] OTHER -> <<>>

\* parse_cmdline (util.c): the table of name-value pairs, the names without
\* their '-'; a name word without '-' is fatal
parse_cmdline(args) ==
  [fatal |-> \E i \in 1..Len(args) : ~args[i].dash,
   table |-> [i \in 1..Len(args) |-> [name |-> args[i].name, value |-> args[i].value]]]

\* read_str_pairs (util.c): the pairs of the configuration file
read_str_pairs(file) ==
  [i \in 1..Len(file) |-> [name |-> file[i].name, value |-> file[i].value]]

\* get_str_index (util.c): 1-based index of the first entry called str,
\* 0 when there is none (the C function returns -1)
get_str_index(tab, str) ==
  IF \E i \in 1..Len(tab) : tab[i].name = str
    THEN CHOOSE i \in 1..Len(tab) :
           tab[i].name = str /\ \A k \in 1..(i - 1) : tab[k].name # str
    ELSE 0

RECURSIVE str_pairs_remove_duplicates(_)
\* str_pairs_remove_duplicates (util.c): of entries with one name the
\* earliest stays
str_pairs_remove_duplicates(tab) ==
  IF tab = <<>> THEN <<>>
  ELSE LET rest == str_pairs_remove_duplicates(SubSeq(tab, 1, Len(tab) - 1))
           last == tab[Len(tab)]
       IN  IF get_str_index(rest, last.name) # 0 THEN rest ELSE Append(rest, last)

\* the value of option name, <<>> when the table has none
Lookup(tab, name) ==
  IF get_str_index(tab, name) = 0 THEN <<>>
  ELSE << tab[get_str_index(tab, name)].value >>

\* sscanf("%s") into a string parameter: the value, dflt when the option is
\* absent; fails on an empty value
StrParam(tab, name, dflt) ==
  IF Lookup(tab, name) = <<>> THEN [ok |-> TRUE, v |-> dflt]
  ELSE [ok |-> Lookup(tab, name)[1] # "", v |-> Lookup(tab, name)[1]]

\* sscanf("%d") into an int parameter
IntParam(tab, name, dflt) ==
  IF Lookup(tab, name) = <<>> THEN [ok |-> TRUE, v |-> dflt]
  ELSE IF ParseInt(Lookup(tab, name)[1]) = <<>> THEN [ok |-> FALSE, v |-> dflt]
  ELSE [ok |-> TRUE, v |-> ParseInt(Lookup(tab, name)[1])[1]]

\* the argument of -v is held as its characters
VoltParam(tab) ==
  IF Lookup(tab, "v") = <<>> THEN [ok |-> TRUE, v |-> <<>>]
  ELSE [ok |-> Len(Lookup(tab, "v")[1]) > 0, v |-> Lookup(tab, "v")[1]]

\* global_config_from_strs (206-312): the global parameters, the string
\* copied to volt_vector, trace_num, and the message of the first fatal
global_config_from_strs(tab) ==
  LET f  == StrParam(tab, "f", NULLFILE)
      p  == StrParam(tab, "p", NULLFILE)
      o  == StrParam(tab, "o", NULLFILE)
      c  == StrParam(tab, "c", NULLFILE)
      d  == StrParam(tab, "d", NULLFILE)
      d3 == StrParam(tab, "detailed_3D", "off")
      um == IntParam(tab, "use_microchannels", 0)
      mf == StrParam(tab, "materials_file", NULLFILE)
      vv == VoltParam(tab)
      t  == IntParam(tab, "t", -1)
  IN  [fatal |->
         IF ~f.ok THEN "invalid format for configuration parameter flp_file"
         ELSE IF Lookup(tab, "p") = <<>> THEN "required parameter p_infile missing"
         ELSE IF ~p.ok THEN "invalid format for configuration parameter p_infile"
         ELSE IF ~o.ok THEN "invalid format for configuration parameter t_outfile"
         ELSE IF ~c.ok THEN "invalid format for configuration parameter config"
         ELSE IF ~d.ok THEN "invalid format for configuration parameter dump_config"
         ELSE IF ~d3.ok THEN "invalid format for configuration parameter lc"
         ELSE IF ~um.ok THEN "invalid format for configuration parameter use_microchannels"
         ELSE IF ~mf.ok THEN "invalid format for configuration parameter materials_file"
         ELSE IF ~vv.ok THEN "invalid format for volt_vector"
         ELSE IF ~t.ok THEN "invalid format for timestamp"
         ELSE "",
       config |-> [flp_file |-> f.v, p_infile |-> p.v, t_outfile |-> o.v,
                   config |-> c.v, dump_config |-> d.v, detailed_3D |-> d3.v,
                   use_microchannels |-> um.v, materials_file |-> mf.v],
       volt_vector |-> vv.v,
       trace_num |-> t.v]

\* c - '0' for the characters a voltage vector is made of
CharMinusZero(c) ==
  CASE c = "0" -> 0 [] c = "1" -> 1 [] c = "2" -> 2 [] c = "3" -> 3
    [] c = "4" -> 4 [] c = "5" -> 5 [] c = "6" -> 6 [] c = "7" -> 7
    [] c = "8" -> 8 [] c = "9" -> 9 [] c = "." -> -2 [] c = "," -> -4
    [] OTHER -> -48

\* bytes that sscanf("%s", volt_vector) stores past the end of the array
VoltOverflow(str) ==
  IF Len(str) + 1 > VOLT_VECTOR_SIZE THEN Len(str) + 1 - VOLT_VECTOR_SIZE ELSE 0

\* volt_vector[i] for a 0-based i; the terminating NUL and what follows it
\* read as NUL
VoltChar(str, i) == IF i < Len(str) THEN CharMinusZero(str[i + 1]) ELSE -48

\* main (589-595): the values stored to volt[0], volt[1], ... in order
DecodeVolt(str) ==
  [j \in 1..((Len(str) + 3) \div 4) |->
     10 * VoltChar(str, 4 * (j - 1)) + VoltChar(str, 4 * (j - 1) + 2)]

\* default_thermal_config (temperature.c), on the scale of the model
default_thermal_config ==
  [model_type |-> "block", grid_layer_file |-> NULLFILE,
   grid_rows |-> 1, grid_cols |-> 1, model_secondary |-> 0,
   init_file |-> NULLFILE, init_temp |-> 3,
   package_model_used |-> 0, natural_convec |-> 0, ambient |-> 1]

\* thermal_config_add_from_strs (temperature.c): every key the table holds
\* replaces the default; a value that does not parse is fatal
thermal_config_add_from_strs(config, tab) ==
  LET mt == StrParam(tab, "model_type", config.model_type)
      lf == StrParam(tab, "grid_layer_file", config.grid_layer_file)
      gr == IntParam(tab, "grid_rows", config.grid_rows)
      gc == IntParam(tab, "grid_cols", config.grid_cols)
      ms == IntParam(tab, "model_secondary", config.model_secondary)
      if == StrParam(tab, "init_file", config.init_file)
      it == IntParam(tab, "init_temp", config.init_temp)
      pm == IntParam(tab, "package_model_used", config.package_model_used)
      nc == IntParam(tab, "natural_convec", config.natural_convec)
      am == IntParam(tab, "ambient", config.ambient)
  IN  [fatal |->
         IF ~mt.ok THEN "invalid format for configuration parameter model_type"
         ELSE IF ~lf.ok THEN "invalid format for configuration parameter grid_layer_file"
         ELSE IF ~gr.ok THEN "invalid format for configuration parameter grid_rows"
         ELSE IF ~gc.ok THEN "invalid format for configuration parameter grid_cols"
         ELSE IF ~ms.ok THEN "invalid format for configuration parameter model_secondary"
         ELSE IF ~if.ok THEN "invalid format for configuration parameter init_file"
         ELSE IF ~it.ok THEN "invalid format for configuration parameter init_temp"
         ELSE IF ~pm.ok THEN "invalid format for configuration parameter package_model_used"
         ELSE IF ~nc.ok THEN "invalid format for configuration parameter natural_convec"
         ELSE IF ~am.ok THEN "invalid format for configuration parameter ambient"
         ELSE "",
       config |-> [model_type |-> mt.v, grid_layer_file |-> lf.v,
                   grid_rows |-> gr.v, grid_cols |-> gc.v, model_secondary |-> ms.v,
                   init_file |-> if.v, init_temp |-> it.v,
                   package_model_used |-> pm.v, natural_convec |-> nc.v,
                   ambient |-> am.v]]

\* package_model (package.c): updates the convection resistance of the
\* package for the average sink temperature and returns TRUE when the
\* package is cooled by natural convection
package_model(config, sink_temp) == config.natural_convec # 0

\* calc_sink_temp (temperature.c): the average over the package nodes of a
\* temperature vector
calc_sink_temp(m, T) ==
  SumSeq(SubSeq(T, Total_n_blocks(m) + 1, Len(T))) \div (Len(T) - Total_n_blocks(m))

\* the highest average sink temperature a natural-convection package stands
MAX_SINK_TEMP == 2

\* the temperatures an initial temperature file holds
InitFileContent(name) == IF name = NULLFILE THEN <<>> ELSE <<1>>

\* alloc_RC_model (temperature.c): the grid model of a thermal configuration;
\* the layer configuration file of the model is the stack StackXYZ
alloc_RC_model(config) ==
  [layers |-> StackXYZ, rows |-> config.grid_rows, cols |-> config.grid_cols,
   model_secondary |-> (config.model_secondary # 0),
   init_temp |-> config.init_temp, init_file |-> InitFileContent(config.init_file)]

GRID_MODEL_STR == "grid"

(* ------------------------------- inputs ------------------------------- *)
\* power traces for the stack X,Y | Z (n = 3 columns)
HdrXYZ == NameLine(<<"X", "Y", "Z">>)
RowOne == ValLine(<<1, 2, 0>>)
RowTwo == ValLine(<<2, 0, 1>>)

PT_first   == [lines |-> <<HdrXYZ, RowOne>>, finalNL |-> TRUE]
PT_second  == [lines |-> <<HdrXYZ, BlankLine, RowTwo>>, finalNL |-> TRUE]
PT_both    == [lines |-> <<HdrXYZ, RowOne, RowTwo>>, finalNL |-> TRUE]
\* the last value line is not terminated by a newline
PT_noNL    == [lines |-> <<HdrXYZ, RowOne, RowTwo>>, finalNL |-> FALSE]
\* one value line, not terminated by a newline
PT_oneNoNL == [lines |-> <<HdrXYZ, RowOne>>, finalNL |-> FALSE]
\* the second value line has two columns
PT_short   == [lines |-> <<HdrXYZ, RowTwo, ValLine(<<1, 1>>)>>, finalNL |-> TRUE]
\* columns X and Y (both of layer 1) exchanged, in header and rows
PT_swapXY  == [lines |-> <<NameLine(<<"Y", "X", "Z">>), ValLine(<<2, 1, 0>>)>>,
               finalNL |-> TRUE]
\* columns rotated across the layers: Z first
PT_rotZXY  == [lines |-> <<NameLine(<<"Z", "X", "Y">>), ValLine(<<0, 1, 2>>)>>,
               finalNL |-> TRUE]

\* the names line has two names
PT_fewNames == [lines |-> <<NameLine(<<"X", "Y">>), RowOne>>, finalNL |-> TRUE]
\* a names line and no value line
PT_none    == [lines |-> <<HdrXYZ>>, finalNL |-> TRUE]
\* the second value line has two columns after a leading blank
PT_lead    == [lines |-> <<HdrXYZ, RowOne, [ValLine(<<1, 2>>) EXCEPT !.lead = TRUE]>>,
               finalNL |-> TRUE]
\* the names line has two names after a leading blank
PT_leadNames == [lines |-> <<[NameLine(<<"X", "Z">>) EXCEPT !.lead = TRUE], RowOne>>,
                 finalNL |-> TRUE]
\* the names line has three names, X twice and Y not at all
PT_dupNames == [lines |-> <<NameLine(<<"X", "X", "Z">>), RowOne, RowTwo>>,
                finalNL |-> TRUE]

\* the power trace files of the working directory
PowerTraceNames == {"first.ptrace", "second.ptrace", "both.ptrace", "noNL.ptrace",
                    "oneNoNL.ptrace", "short.ptrace", "swapXY.ptrace", "rotZXY.ptrace",
                    "fewNames.ptrace", "none.ptrace", "lead.ptrace",
                    "leadNames.ptrace", "dupNames.ptrace"}
PowerTraceFile(name) ==
  CASE name = "second.ptrace"  -> PT_second
    [] name = "both.ptrace"    -> PT_both
    [] name = "noNL.ptrace"    -> PT_noNL
    [] name = "oneNoNL.ptrace" -> PT_oneNoNL
    [] name = "short.ptrace"   -> PT_short
    [] name = "swapXY.ptrace"  -> PT_swapXY
    [] name = "rotZXY.ptrace"  -> PT_rotZXY
    [] name = "fewNames.ptrace" -> PT_fewNames
    [] name = "none.ptrace"    -> PT_none
    [] name = "lead.ptrace"    -> PT_lead
    [] name = "leadNames.ptrace" -> PT_leadNames
    [] name = "dupNames.ptrace" -> PT_dupNames
    [] OTHER                   -> PT_first
PowerTraceName(pt) == CHOOSE n \in PowerTraceNames : PowerTraceFile(n) = pt

\* the decimal text of a small integer
IntStr(n) ==
  CASE n = -1 -> "-1" [] n = 0 -> "0" [] n = 1 -> "1" [] n = 2 -> "2" [] n = 3 -> "3"

\* the command line that asks for model m on power trace pt, with -o and -t
\* as given
CmdLine(t, o, m, pt) ==
  << Arg("p", PowerTraceName(pt)), Arg("grid_layer_file", "xyz.lcf"),
     Arg("model_type", "grid"),
     Arg("grid_rows", IntStr(m.rows)), Arg("grid_cols", IntStr(m.cols)) >>
  \o (IF m.model_secondary THEN << Arg("model_secondary", "1") >> ELSE <<>>)
  \o (IF m.init_file # <<>> THEN << Arg("init_file", "t.init") >> ELSE <<>>)
  \o (IF o THEN << Arg("o", "out.ttrace") >> ELSE <<>>)
  \o (IF t # <<>> THEN << Arg("t", IntStr(t[1])) >> ELSE <<>>)

\* an invocation: -t (<<>> when the option is absent), -o given or not, the
\* model the configuration yields, and the power trace named by -p; argv is
\* its command line (dangling: a last word without a value), cf the pairs
\* of the configuration file
Inv(t, o, m, pt) ==
  [t |-> t, o |-> o, m |-> m, pt |-> pt,
   argv |-> CmdLine(t, o, m, pt), dangling |-> FALSE, cf |-> <<>>]

\* the same invocation for a package cooled by natural convection
InvNatural(t, o, m, pt) ==
  [Inv(t, o, m, pt) EXCEPT
     !.argv = @ \o << Arg("package_model_used", "1"), Arg("natural_convec", "1") >>]

Inputs ==
  {Inv(t, TRUE, ModelA, pt) : t \in {<<0>>, <<1>>},
                              pt \in {PT_first, PT_second, PT_both, PT_noNL,
                                      PT_short, PT_swapXY, PT_rotZXY}}
  \cup {Inv(<<>>, TRUE, ModelA, pt) : pt \in {PT_first, PT_both}}
  \cup {Inv(<<2>>, TRUE, ModelA, PT_first), Inv(<<0>>, TRUE, ModelA, PT_oneNoNL)}
  \cup {Inv(t, TRUE, ModelB, PT_first) : t \in {<<0>>, <<1>>}}
  \cup {Inv(t, TRUE, ModelC, PT_first) : t \in {<<0>>, <<1>>}}
  \cup {Inv(t, FALSE, ModelA, PT_first) : t \in {<<>>, <<0>>, <<1>>}}
  \cup {InvNatural(<<0>>, TRUE, ModelA, PT_both)}

\* a voltage vector of k entries x.y: entry j (0-based) is VoltX(j).VoltY(j)
Digits == << "0", "1", "2", "3", "4", "5", "6", "7", "8", "9" >>
VoltX(j) == j % 10
VoltY(j) == (j + 3) % 10
VoltString(k) ==
  [i \in 1..(4 * k - 1) |->
     CASE i % 4 = 1 -> Digits[VoltX((i - 1) \div 4) + 1]
       [] i % 4 = 2 -> "."
       [] i % 4 = 3 -> Digits[VoltY((i - 1) \div 4) + 1]
       [] OTHER     -> ","]
\* numbers of entries: few, the most volt_vector holds, one more, the most
\* volt holds
VoltLengths == {1, 2, 3, (VOLT_VECTOR_SIZE - 1) \div 4, (VOLT_VECTOR_SIZE - 1) \div 4 + 1,
                VOLT_SIZE}

\* an invocation given by its command line and its configuration file
Command(args, cf, dangling) ==
  [t |-> IF Lookup(args, "t") = <<>> THEN <<>> ELSE ParseInt(Lookup(args, "t")[1]),
   o |-> Lookup(args, "o") # <<>>, m |-> ModelA, pt |-> PT_first,
   argv |-> args, dangling |-> dangling, cf |-> cf]

P_first == Arg("p", "first.ptrace")
Grid == << Arg("grid_layer_file", "xyz.lcf"), Arg("model_type", "grid") >>
Base == << P_first >> \o Grid
WithFile == Base \o << Arg("c", "hotspot.config") >>
Pair(n, v) == [name |-> n, value |-> v]

\* command lines with and without a configuration file
SetupInputs ==
  \* an option on the command line, in the file, in both, in neither
  { Command(Base, <<>>, FALSE),
    Command(WithFile, << Pair("t", "1") >>, FALSE),
    Command(WithFile \o << Arg("t", "0") >>, << Pair("t", "1") >>, FALSE),
    Command(WithFile, << Pair("grid_rows", "2") >>, FALSE),
    Command(WithFile \o << Arg("grid_rows", "1") >>, << Pair("grid_rows", "2") >>, FALSE),
    Command(WithFile, << Pair("o", "out.ttrace") >>, FALSE),
    Command(WithFile, << Pair("detailed_3D", "on") >>, FALSE),
    Command(Grid \o << Arg("c", "hotspot.config") >>, << Pair("p", "first.ptrace") >>, FALSE),
    Command(WithFile, << Pair("v", VoltString(2)) >>, FALSE) }
  \* voltage vectors
  \cup { Command(Base \o << Arg("v", VoltString(k)) >>, <<>>, FALSE) : k \in VoltLengths }
  \* configurations that are in error, and their neighbours that are not
  \cup { Command(Grid, <<>>, FALSE),
         Command(<< P_first, Arg("model_type", "grid") >>, <<>>, FALSE),
         Command(<< P_first, Arg("f", "chip.flp") >>, <<>>, FALSE),
         Command(Base \o << Arg("t", "x") >>, <<>>, FALSE),
         Command(Base \o << Arg("grid_rows", "x") >>, <<>>, FALSE),
         Command(Base \o << Arg("detailed_3D", "maybe") >>, <<>>, FALSE),
         Command(Base \o << Arg("detailed_3D", "on") >>, <<>>, FALSE),
         Command(<< P_first, Arg("f", "chip.flp"), Arg("detailed_3D", "on") >>, <<>>, FALSE),
         Command(<< P_first, Arg("f", "chip.flp"), Arg("model_type", "grid"),
                    Arg("detailed_3D", "on") >>, <<>>, FALSE),
         Command(Base \o << Arg("use_microchannels", "1") >>, <<>>, FALSE),
         Command(Base \o << Arg("use_microchannels", "1"), Arg("detailed_3D", "on") >>,
                 <<>>, FALSE),
         Command(Base \o << Arg("package_model_used", "1"), Arg("natural_convec", "1") >>,
                 <<>>, FALSE),
         Command(Base, <<>>, TRUE),
         Command(<< P_first >>, <<>>, FALSE),
         Command(<< P_first, [Arg("o", "out.ttrace") EXCEPT !.dash = FALSE] >>, <<>>, FALSE) }

(* ------------------------------ exits --------------------------------- *)
\* record of the running invocation in the log
LogStart(inp, from) ==
  [t |-> IF inp.t = <<>> THEN -1 ELSE inp.t[1], o |-> inp.o, m |-> inp.m,
   pt |-> inp.pt, from |-> from, to |-> from, exit |-> -1, diag |-> "running"]

LogEnd(code, msg, to) ==
  [log EXCEPT ![Len(log)].exit = code, ![Len(log)].diag = msg, ![Len(log)].to = to]

\* the stores of an aborted invocation stay in the file: it is partial when
\* the solver has advanced the mapped state by at least one row
AbortLeavesPartial == last_temp.kind = "mmap" /\ lines > 0

\* fatal(msg) / exit(1) with everything else as it is (trace length to)
Exit(code, msg, to) ==
  /\ pc' = "idle"
  /\ exit_code' = code
  /\ diag' = msg
  /\ log' = LogEnd(code, msg, to)

(* ------------------------------- Init --------------------------------- *)
NothingWritten == [cuboid |-> <<>>, extra |-> <<>>, temp |-> <<>>]

InitProcess ==
  /\ pc = "idle"
  /\ trace_num = -1 /\ do_transient = FALSE /\ model = ModelA /\ ptrace = PT_first
  /\ pin = 1 /\ names = <<>> /\ vals = <<>> /\ lines = 0
  /\ power = <<>> /\ overall_power = <<>>
  /\ last_temp = NullVec
  /\ last_trans = HeapTrans(<<>>, <<>>)
  /\ temp_initialised = FALSE /\ first_invocation = FALSE
  /\ mapped_region = "NULL" /\ mapped_size = 0 /\ mapping_live = FALSE
  /\ header_written = FALSE /\ calls = {}
  /\ exit_code = 0 /\ diag = ""
  /\ argv = <<>> /\ table = <<>> /\ config_file = <<>>
  /\ global_config = global_config_from_strs(<<>>).config
  /\ volt_vector = <<>> /\ volt = <<>>
  /\ thermal_config = default_thermal_config
  /\ do_detailed_3D = FALSE /\ use_microchannels = FALSE /\ natural = FALSE
  /\ stdout = <<>>
  /\ avg_sink_temp = 0
  /\ io_failed = {}

\* a fresh working directory: no checkpoint file, no temperature trace
Init ==
  /\ ckpt = NoFile /\ ckpt0 = NoFile
  /\ ttrace = <<>> /\ log = <<>> /\ partial = FALSE
  /\ written = NothingWritten
  /\ InitProcess

\* checkpoint files found in a directory that was used before
ExtData == [i \in 1..(Cells(ModelA) + ExtraNodes(ModelA) + TotalNodes(ModelA)) |-> i % TMod]
ExtGridA(magic, idx, num_extra, len) ==
  [exists |-> TRUE,
   hdr    |-> << magic, idx, N_layers(ModelA), ModelA.rows, ModelA.cols, num_extra >>,
   data   |-> SubSeq(ExtData, 1, len)]

ExternalFiles ==
  { ExtGridA(MAGIC_MMAP_FILE + 1, 0, EXTRA, Len(ExtData)),   \* not a checkpoint
    ExtGridA(MAGIC_MMAP_FILE, 0, EXTRA, Len(ExtData)),       \* left by a chunk 0
    ExtGridA(MAGIC_MMAP_FILE, -2, EXTRA, Len(ExtData)),      \* trace index -2
    ExtGridA(MAGIC_MMAP_FILE, 0, EXTRA + 1, Len(ExtData)),   \* num_extra too large
    [exists |-> TRUE, hdr |-> <<>>, data |-> <<>>] }         \* empty file

\* a working directory that holds a checkpoint file of unknown origin; the
\* log starts with the record of that earlier activity
InitExt ==
  /\ ckpt \in ExternalFiles
  /\ ckpt0 = ckpt
  /\ ttrace = <<>> /\ partial = FALSE
  /\ written = NothingWritten
  /\ log = << [LogStart(Inv(<<>>, FALSE, ModelA, PT_first), 0)
                EXCEPT !.exit = 0, !.diag = "earlier activity"] >>
  /\ InitProcess

(* ------------------------------ actions ------------------------------- *)
n_units == PowerUnits(model.layers)
FileSize(f) == 4 * Len(f.hdr) + 8 * Len(f.data)

\* a new process: nothing is read, allocated or mapped yet
NewProcess ==
  /\ pin' = 1 /\ names' = <<>> /\ vals' = <<>> /\ lines' = 0
  /\ power' = <<>> /\ overall_power' = <<>>
  /\ last_temp' = NullVec
  /\ last_trans' = HeapTrans(<<>>, <<>>)
  /\ temp_initialised' = FALSE /\ first_invocation' = FALSE
  /\ mapped_region' = "NULL" /\ mapped_size' = 0 /\ mapping_live' = FALSE
  /\ header_written' = FALSE /\ calls' = {}
  /\ model' = ModelA /\ ptrace' = PT_first
  /\ thermal_config' = default_thermal_config
  /\ do_detailed_3D' = FALSE /\ use_microchannels' = FALSE /\ natural' = FALSE
  /\ stdout' = <<>>
  /\ avg_sink_temp' = 0
  /\ io_failed' = {}

\* argc of an invocation: the program name and two words per pair
Argc(inp) == 1 + 2 * Len(inp.argv) + (IF inp.dangling THEN 1 ELSE 0)

\* the message main() 579-586 ends with, "" when it goes on
StartFatal(inp) ==
  IF ~(Argc(inp) >= 5 /\ Argc(inp) % 2 = 1) THEN "usage"
  ELSE IF parse_cmdline(inp.argv).fatal THEN "invalid command line"
  ELSE global_config_from_strs(parse_cmdline(inp.argv).table).fatal

\* main() 536-602: the command line is parsed; global_config_from_strs sets
\* the global parameters, volt_vector and trace_num from that table alone;
\* the voltage vector is decoded and do_transient follows from -o.  A string
\* longer than volt_vector overruns it: the process goes on or is killed.
Start(inp) ==
  LET g == global_config_from_strs(parse_cmdline(inp.argv).table)
      msg == StartFatal(inp)
  IN
  /\ pc = "idle"
  /\ Len(log) < MaxInvocations
  /\ NewProcess
  /\ ckpt0' = ckpt
  /\ argv' = inp.argv
  /\ config_file' = inp.cf
  /\ \/ /\ msg # ""
        /\ table' = <<>>
        /\ global_config' = global_config_from_strs(<<>>).config
        /\ volt_vector' = <<>> /\ volt' = <<>>
        /\ trace_num' = -1 /\ do_transient' = TRUE
        /\ exit_code' = 1 /\ diag' = msg
        /\ log' = Append(log, [LogStart(inp, Len(ttrace)) EXCEPT !.exit = 1, !.diag = msg])
        /\ pc' = "idle"
     \/ /\ msg = ""
        /\ table' = parse_cmdline(inp.argv).table
        /\ global_config' = g.config
        /\ volt_vector' = g.volt_vector
        /\ volt' = DecodeVolt(g.volt_vector)
        /\ trace_num' = g.trace_num
        /\ do_transient' = (g.config.t_outfile # NULLFILE)
        /\ \/ /\ exit_code' = 0 /\ diag' = ""
              /\ log' = Append(log, LogStart(inp, Len(ttrace)))
              /\ pc' = "config"
           \/ /\ VoltOverflow(g.volt_vector) > 0
              /\ exit_code' = 139 /\ diag' = "SIGSEGV"
              /\ log' = Append(log, [LogStart(inp, Len(ttrace))
                                       EXCEPT !.exit = 139, !.diag = "SIGSEGV"])
              /\ pc' = "idle"
  /\ UNCHANGED << ckpt, ttrace, partial, written >>

\* main() 604-653: the pairs of the configuration file are appended to the
\* table and duplicates removed; detailed_3D, the thermal configuration, the
\* microchannel switch and the package model follow
Configure ==
  LET tbl == str_pairs_remove_duplicates(
               IF global_config.config # NULLFILE
                 THEN table \o read_str_pairs(config_file) ELSE table)
      th == thermal_config_add_from_strs(default_thermal_config, tbl)
  IN
  /\ pc = "config"
  /\ table' = tbl
  /\ do_detailed_3D' = (global_config.detailed_3D = "on")
  /\ \/ /\ th.fatal # ""
        /\ Exit(1, th.fatal, Len(ttrace))
        /\ UNCHANGED << thermal_config, use_microchannels, natural, avg_sink_temp >>
     \/ /\ th.fatal = ""
        /\ thermal_config' = th.config
        /\ use_microchannels' = (global_config.use_microchannels # 0)
        /\ IF get_str_index(tbl, "package_model_used") # 0
                /\ th.config.package_model_used # 0
             THEN /\ avg_sink_temp' = th.config.ambient
                  /\ natural' = package_model(th.config, th.config.ambient)
             ELSE UNCHANGED << natural, avg_sink_temp >>
        /\ pc' = "model"
        /\ UNCHANGED << log, exit_code, diag >>
  /\ UNCHANGED << ckpt, ttrace, ckpt0, partial, written, trace_num, do_transient,
                  model, ptrace, runVars, argv, config_file, global_config, volt_vector,
                  volt >>
  /\ UNCHANGED stdout
  /\ UNCHANGED io_failed

\* the message main() 665-693 ends with, "" when the model is accepted
ModelFatal ==
  IF thermal_config.grid_layer_file = NULLFILE /\ global_config.flp_file = NULLFILE
    THEN "Either LCF or FLP file must be specified"
  ELSE IF thermal_config.model_type # GRID_MODEL_STR /\ thermal_config.model_type # "block"
    THEN "unknown model type"
  ELSE IF thermal_config.model_type # GRID_MODEL_STR /\ do_detailed_3D
    THEN "-do_detailed_3D can only be used with -model_type grid"
  ELSE IF /\ thermal_config.model_type = GRID_MODEL_STR
          /\ thermal_config.grid_layer_file = NULLFILE /\ do_detailed_3D
    THEN "-do_detailed_3D can only be used in 3D mode"
  ELSE IF use_microchannels /\ (thermal_config.model_type # GRID_MODEL_STR \/ ~do_detailed_3D)
    THEN "-use_microchannels requires -model_type grid and do_detailed_3D on options"
  ELSE ""

\* main() 665-711: the floorplan or the layer configuration is read, the
\* model allocated and the combination of options checked
AllocModel ==
  /\ pc = "model"
  /\ \/ /\ ModelFatal # ""
        /\ Exit(1, ModelFatal, Len(ttrace))
        /\ UNCHANGED << model, ptrace, last_trans >>
     \/ /\ ModelFatal = ""
        /\ model' = alloc_RC_model(thermal_config)
        /\ ptrace' = PowerTraceFile(global_config.p_infile)
        /\ last_trans' = HeapTrans(NewCuboid(alloc_RC_model(thermal_config), 0),
                                   Zeros(ExtraNodes(alloc_RC_model(thermal_config))))
        /\ pc' = "alloc"
        /\ UNCHANGED << log, exit_code, diag >>
  /\ UNCHANGED << ckpt, ttrace, ckpt0, partial, written, trace_num, do_transient,
                  pin, names, vals, lines, power, overall_power, last_temp,
                  temp_initialised, first_invocation, mapped_region, mapped_size,
                  mapping_live, header_written, calls, setupVars >>
  /\ UNCHANGED stdout
  /\ UNCHANGED natural
  /\ UNCHANGED avg_sink_temp
  /\ UNCHANGED io_failed

\* main() 717-736: the vectors are allocated; the initial temperatures are
\* set only when trace_num <= 0
Alloc ==
  /\ pc = "alloc"
  /\ power' = Zeros(Total_n_blocks(model))
  /\ overall_power' = Zeros(Total_n_blocks(model))
  /\ IF TraceNumLeZero(trace_num) /\ do_transient
       THEN /\ last_temp' = HeapVec(IF model.init_file # <<>> THEN read_temp(model)
                                                             ELSE set_temp(model))
            /\ temp_initialised' = TRUE
       ELSE /\ last_temp' = (IF do_transient THEN HeapVec(Zeros(TotalNodes(model)))
                                            ELSE NullVec)
            /\ UNCHANGED temp_initialised
  /\ pc' = "open"
  /\ UNCHANGED << envVars, trace_num, do_transient, model, ptrace, pin, names, vals,
                  lines, last_trans, first_invocation, mapped_region, mapped_size,
                  mapping_live, header_written, calls, exit_code, diag >>
  /\ UNCHANGED setupVars
  /\ UNCHANGED stdout
  /\ UNCHANGED natural
  /\ UNCHANGED avg_sink_temp
  /\ UNCHANGED io_failed

\* main() 755-765: the traces are opened and the names line is read
OpenTraces ==
  /\ pc = "open"
  /\ LET rn == read_names(ptrace, pin)
     IN  IF rn.fatal
           THEN /\ Exit(1, "not enough names in trace file", Len(ttrace))
                /\ UNCHANGED << names, pin >>
         ELSE IF Len(rn.names) # n_units
           THEN /\ Exit(1, "no. of units in floorplan and trace file differ", Len(ttrace))
                /\ names' = rn.names /\ pin' = rn.pos
         ELSE /\ names' = rn.names /\ pin' = rn.pos
              /\ pc' = "header"
              /\ UNCHANGED << log, exit_code, diag >>
  /\ UNCHANGED << ckpt, ttrace, ckpt0, written, partial, trace_num, do_transient, model, ptrace,
                  vals, lines, power, overall_power, last_temp, last_trans,
                  temp_initialised, first_invocation, mapped_region, mapped_size,
                  mapping_live, header_written, calls >>
  /\ UNCHANGED setupVars
  /\ UNCHANGED stdout
  /\ UNCHANGED natural
  /\ UNCHANGED avg_sink_temp
  /\ UNCHANGED io_failed

\* WriteHeaders without the deletion of the old checkpoint (773-781)
WriteHeaders_KeepFile ==
  /\ pc = "header"
  /\ TraceNumLeZero(trace_num) /\ do_transient
  /\ ttrace' = Append(ttrace, OutNames(SubSeq(names, 1, n_units)))
  /\ header_written' = TRUE
  /\ UNCHANGED << ckpt, partial >>
  /\ pc' = "loop"
  /\ UNCHANGED << log, ckpt0, written, trace_num, do_transient, model, ptrace, pin, names, vals,
                  lines, power, overall_power, last_temp, last_trans, temp_initialised,
                  first_invocation, mapped_region, mapped_size, mapping_live, calls,
                  exit_code, diag >>
  /\ UNCHANGED setupVars
  /\ UNCHANGED stdout
  /\ UNCHANGED natural
  /\ UNCHANGED avg_sink_temp
  /\ UNCHANGED io_failed

\* main() 768-784: first chunk or standalone run with transient output: the
\* header line is written and, for trace_num == 0, an old checkpoint deleted
WriteHeaders ==
  /\ pc = "header"
  /\ TraceNumLeZero(trace_num) /\ do_transient
  /\ ttrace' = Append(ttrace, OutNames(SubSeq(names, 1, n_units)))
  /\ header_written' = TRUE
  /\ IF trace_num = 0 /\ ckpt.exists
       THEN ckpt' = NoFile /\ partial' = FALSE
       ELSE UNCHANGED << ckpt, partial >>
  /\ pc' = "loop"
  /\ UNCHANGED << log, ckpt0, written, trace_num, do_transient, model, ptrace, pin, names, vals,
                  lines, power, overall_power, last_temp, last_trans, temp_initialised,
                  first_invocation, mapped_region, mapped_size, mapping_live, calls,
                  exit_code, diag >>
  /\ UNCHANGED setupVars
  /\ UNCHANGED stdout
  /\ UNCHANGED natural
  /\ UNCHANGED avg_sink_temp
  /\ UNCHANGED io_failed

\* main() 785-788 and load_last_trans_temp_mmap (94-146)
Load ==
  /\ pc = "header"
  /\ ~(TraceNumLeZero(trace_num) /\ do_transient)
  /\ TraceNumGtZero(trace_num) /\ do_transient
  /\ calls' = calls \cup {"load"}
  /\ IF ~ckpt.exists
       THEN \* open fails: perror, exit(1)
            /\ Exit(1, "open", Len(ttrace))
            /\ io_failed' = io_failed \cup {"open"}
            /\ UNCHANGED << mapped_region, mapped_size, mapping_live, last_temp, last_trans >>
     ELSE IF FileSize(ckpt) = 0
       THEN \* mmap of length 0 fails
            /\ Exit(1, "mmap failed", Len(ttrace))
            /\ io_failed' = io_failed \cup {"mmap"}
            /\ mapped_size' = 0
            /\ UNCHANGED << mapped_region, mapping_live, last_temp, last_trans >>
     ELSE /\ mapped_region' = "raw"
          /\ mapped_size' = FileSize(ckpt)
          /\ UNCHANGED io_failed
          /\ IF ~HeaderValid(ckpt, trace_num)
               THEN /\ mapping_live' = FALSE
                    /\ Exit(1, "Invalid file header", Len(ttrace))
                    /\ UNCHANGED << last_temp, last_trans >>
             ELSE IF ~GridMatches(ckpt, model)
               THEN /\ mapping_live' = FALSE
                    /\ Exit(1, "Grid mismatch", Len(ttrace))
                    /\ UNCHANGED << last_temp, last_trans >>
             ELSE /\ mapping_live' = TRUE
                  /\ last_trans' = ViewTrans(LoadViews(ckpt))
                  /\ last_temp' = ViewVec(LoadViews(ckpt).temp)
                  /\ pc' = "loop"
                  /\ UNCHANGED << log, exit_code, diag >>
  /\ UNCHANGED << ckpt, ttrace, ckpt0, written, partial, trace_num, do_transient, model, ptrace,
                  pin, names, vals, lines, power, overall_power, temp_initialised,
                  first_invocation, header_written >>
  /\ UNCHANGED setupVars
  /\ UNCHANGED stdout
  /\ UNCHANGED natural
  /\ UNCHANGED avg_sink_temp

\* main() 768-788 when neither branch applies (no transient output)
NoHeader ==
  /\ pc = "header"
  /\ ~(TraceNumLeZero(trace_num) /\ do_transient)
  /\ ~(TraceNumGtZero(trace_num) /\ do_transient)
  /\ pc' = "loop"
  /\ UNCHANGED << envVars, trace_num, do_transient, model, ptrace, pin, names, vals,
                  lines, power, overall_power, last_temp, last_trans, temp_initialised,
                  first_invocation, mapped_region, mapped_size, mapping_live,
                  header_written, calls, exit_code, diag >>
  /\ UNCHANGED setupVars
  /\ UNCHANGED stdout
  /\ UNCHANGED natural
  /\ UNCHANGED avg_sink_temp
  /\ UNCHANGED io_failed

\* what the process sees through last_temp and last_trans
CurTemp   == TempOf(last_temp, ckpt, model)
CurCuboid == CuboidOf(last_trans, ckpt, model)
CurExtra  == ExtraOf(last_trans, ckpt, model)

\* main() 793 and 869: read_vals returns 0, the loop ends
EndOfTrace ==
  /\ pc = "loop"
  /\ read_vals(ptrace, pin).num = 0
  /\ pin' = read_vals(ptrace, pin).pos
  /\ pc' = "end"
  /\ UNCHANGED << envVars, trace_num, do_transient, model, ptrace, names, vals, lines,
                  power, overall_power, last_temp, last_trans, temp_initialised,
                  first_invocation, mapped_region, mapped_size, mapping_live,
                  header_written, calls, exit_code, diag >>
  /\ UNCHANGED setupVars
  /\ UNCHANGED stdout
  /\ UNCHANGED natural
  /\ UNCHANGED avg_sink_temp
  /\ UNCHANGED io_failed

\* main() 794-795 and get_blk_index: a row that is refused
RowFatal ==
  /\ pc = "loop"
  /\ LET rv == read_vals(ptrace, pin)
     IN  /\ rv.num # 0
         /\ rv.num # n_units \/ ~NamesFound(model, names)
         /\ pin' = rv.pos
         /\ vals' = rv.vals
         /\ Exit(1, IF rv.num # n_units THEN "invalid trace file format"
                                        ELSE "block not found", Len(ttrace))
  /\ partial' = (partial \/ AbortLeavesPartial)
  /\ UNCHANGED << ckpt, ttrace, ckpt0, written, trace_num, do_transient, model, ptrace, names,
                  lines, power, overall_power, last_temp, last_trans, temp_initialised,
                  first_invocation, mapped_region, mapped_size, mapping_live,
                  header_written, calls >>
  /\ UNCHANGED setupVars
  /\ UNCHANGED stdout
  /\ UNCHANGED natural
  /\ UNCHANGED avg_sink_temp
  /\ UNCHANGED io_failed

\* main() 793-868 without transient output: the row is permuted and averaged
RowSteady ==
  /\ pc = "loop"
  /\ ~do_transient
  /\ LET rv == read_vals(ptrace, pin)
     IN  /\ rv.num = n_units /\ NamesFound(model, names)
         /\ pin' = rv.pos
         /\ vals' = rv.vals
         /\ power' = PermutePower(model, names, rv.vals, power)
         /\ overall_power' = Accumulate(model, overall_power, power')
  /\ lines' = lines + 1
  /\ UNCHANGED << envVars, pc, trace_num, do_transient, model, ptrace, names, last_temp,
                  last_trans, temp_initialised, first_invocation, mapped_region,
                  mapped_size, mapping_live, header_written, calls, exit_code, diag >>
  /\ UNCHANGED setupVars
  /\ UNCHANGED stdout
  /\ UNCHANGED natural
  /\ UNCHANGED avg_sink_temp
  /\ UNCHANGED io_failed

\* main() 793-868 with transient output: permute, under natural convection
\* update the package for the average sink temperature, solve one interval,
\* permute back, append the temperature row
RowTransient ==
  /\ pc = "loop"
  /\ do_transient
  /\ IF natural
       THEN /\ avg_sink_temp' = calc_sink_temp(model, CurTemp)
            /\ natural' = package_model(thermal_config, calc_sink_temp(model, CurTemp))
       ELSE UNCHANGED << natural, avg_sink_temp >>
  /\ LET rv    == read_vals(ptrace, pin)
         first == TraceNumLeZero(trace_num) /\ lines = 0
         pw    == PermutePower(model, names, rv.vals, power)
         res   == compute_temp(model, CurTemp, CurCuboid, CurExtra, pw, first)
     IN  /\ rv.num = n_units /\ NamesFound(model, names)
         /\ pin' = rv.pos
         /\ power' = pw
         /\ first_invocation' = first
         /\ IF last_temp.kind = "mmap"
              THEN /\ ckpt' = StoreThroughViews(ckpt, last_temp, last_trans, model,
                                                res.T, res.cuboid, res.extra)
                   /\ UNCHANGED << last_temp, last_trans >>
              ELSE /\ last_temp' = HeapVec(res.T)
                   /\ last_trans' = HeapTrans(res.cuboid, res.extra)
                   /\ UNCHANGED ckpt
         /\ vals' = PermuteBack(model, names, res.T)
         /\ ttrace' = Append(ttrace, OutVals(vals'))
         /\ overall_power' = Accumulate(model, overall_power, pw)
  /\ lines' = lines + 1
  /\ UNCHANGED << log, ckpt0, written, partial, pc, trace_num, do_transient, model, ptrace, names,
                  temp_initialised, mapped_region, mapped_size, mapping_live,
                  header_written, calls, exit_code, diag >>
  /\ UNCHANGED setupVars
  /\ UNCHANGED stdout
  /\ UNCHANGED io_failed

\* the solver reaches through a view past the end of the mapped file: past
\* the last page of the mapping the access faults (SIGBUS); inside it the
\* access goes through (RowTransient)
RowFault ==
  /\ pc = "loop"
  /\ do_transient
  /\ read_vals(ptrace, pin).num = n_units /\ NamesFound(model, names)
  /\ ~ViewsInFile(last_temp, last_trans, ckpt, model)
  /\ Exit(135, "SIGBUS", Len(ttrace))
  /\ partial' = (partial \/ AbortLeavesPartial)
  /\ UNCHANGED << ckpt, ttrace, ckpt0, written, trace_num, do_transient, model, ptrace, pin, names,
                  vals, lines, power, overall_power, last_temp, last_trans,
                  temp_initialised, first_invocation, mapped_region, mapped_size,
                  mapping_live, header_written, calls >>
  /\ UNCHANGED setupVars
  /\ UNCHANGED stdout
  /\ UNCHANGED natural
  /\ UNCHANGED avg_sink_temp
  /\ UNCHANGED io_failed

\* main() 869-870
NoPowerRows ==
  /\ pc = "end"
  /\ lines = 0
  /\ Exit(1, "no power numbers in trace file", Len(ttrace))
  /\ UNCHANGED << ckpt, ttrace, ckpt0, written, partial, trace_num, do_transient, model, ptrace,
                  pin, names, vals, lines, power, overall_power, last_temp, last_trans,
                  temp_initialised, first_invocation, mapped_region, mapped_size,
                  mapping_live, header_written, calls >>
  /\ UNCHANGED setupVars
  /\ UNCHANGED stdout
  /\ UNCHANGED natural
  /\ UNCHANGED avg_sink_temp
  /\ UNCHANGED io_failed

\* main() 873-882 and save_last_trans_temp_mmap (148-185)
Save ==
  /\ pc = "end"
  /\ lines > 0
  /\ trace_num = 0
  /\ last_temp.kind # "null"
  /\ calls' = calls \cup {"save"}
  /\ ckpt' = SaveFile(model, trace_num, ExtraNodes(model), CurCuboid, CurExtra, CurTemp)
  /\ partial' = FALSE
  /\ written' = [cuboid |-> CurCuboid, extra |-> CurExtra, temp |-> CurTemp]
  /\ pc' = "cleanup"
  /\ UNCHANGED << ttrace, log, ckpt0, trace_num, do_transient, model, ptrace, pin, names,
                  vals, lines, power, overall_power, last_temp, last_trans,
                  temp_initialised, first_invocation, mapped_region, mapped_size,
                  mapping_live, header_written, exit_code, diag >>
  /\ UNCHANGED setupVars
  /\ UNCHANGED stdout
  /\ UNCHANGED natural
  /\ UNCHANGED avg_sink_temp
  /\ UNCHANGED io_failed

\* save when last_temp was never allocated (no transient output): fwrite
\* reads from a null pointer.  Either the copy faults, after fopen("wb") has
\* truncated the file, or the write fails and the file ends after extra.
SaveNoTemp ==
  /\ pc = "end"
  /\ lines > 0
  /\ trace_num = 0
  /\ last_temp.kind = "null"
  /\ calls' = calls \cup {"save"}
  /\ partial' = FALSE
  /\ written' = [cuboid |-> CurCuboid, extra |-> CurExtra, temp |-> <<>>]
  /\ \/ /\ ckpt' = [exists |-> TRUE, hdr |-> <<>>, data |-> <<>>]
        /\ Exit(139, "SIGSEGV", Len(ttrace))
        /\ UNCHANGED io_failed
     \/ /\ ckpt' = [SaveFile(model, trace_num, ExtraNodes(model), CurCuboid, CurExtra,
                               Zeros(TotalNodes(model)))
                        EXCEPT !.data = SubSeq(@, 1, Cells(model) + ExtraNodes(model))]
        /\ io_failed' = io_failed \cup {"fwrite"}
        /\ pc' = "cleanup"
        /\ UNCHANGED << log, exit_code, diag >>
  /\ UNCHANGED << ttrace, ckpt0, trace_num, do_transient, model, ptrace, pin, names,
                  vals, lines, power, overall_power, last_temp, last_trans,
                  temp_initialised, first_invocation, mapped_region, mapped_size,
                  mapping_live, header_written >>
  /\ UNCHANGED setupVars
  /\ UNCHANGED stdout
  /\ UNCHANGED natural
  /\ UNCHANGED avg_sink_temp

\* main() 883-886 and flush_updated_last_trans_temp (187-195); with no
\* mapping the store to header[1] goes through a null pointer
Flush ==
  /\ pc = "end"
  /\ lines > 0
  /\ trace_num # 0
  /\ TraceNumGtZero(trace_num)
  /\ calls' = calls \cup {"flush"}
  /\ IF mapped_region = "NULL"
       THEN /\ Exit(139, "SIGSEGV", Len(ttrace))
            /\ UNCHANGED ckpt
       ELSE /\ ckpt' = FlushHeader(ckpt, trace_num)
            /\ pc' = "cleanup"
            /\ UNCHANGED << log, exit_code, diag >>
  /\ UNCHANGED << ttrace, ckpt0, written, partial, trace_num, do_transient, model, ptrace, pin,
                  names, vals, lines, power, overall_power, last_temp, last_trans,
                  temp_initialised, first_invocation, mapped_region, mapped_size,
                  mapping_live, header_written >>
  /\ UNCHANGED setupVars
  /\ UNCHANGED stdout
  /\ UNCHANGED natural
  /\ UNCHANGED avg_sink_temp
  /\ UNCHANGED io_failed

\* main() 888-977: the accumulated power is averaged over the rows read (the
\* steady-state solve and its output that followed are commented out, 903-931);
\* unload when trace_num > 0, close the files, print the last message,
\* return 0
Cleanup ==
  /\ pc = "cleanup"
  /\ overall_power' = Average(model, overall_power, lines)
  /\ stdout' = Append(stdout, Message("Simulation complete."))
  /\ IF TraceNumGtZero(trace_num)
       THEN calls' = calls \cup {"unload"} /\ mapping_live' = FALSE
       ELSE UNCHANGED << calls, mapping_live >>
  /\ Exit(0, "Simulation complete", Len(ttrace))
  /\ UNCHANGED << ckpt, ttrace, ckpt0, written, partial, trace_num, do_transient, model, ptrace,
                  pin, names, vals, lines, power, last_temp, last_trans,
                  temp_initialised, first_invocation, mapped_region, mapped_size,
                  header_written >>
  /\ UNCHANGED setupVars
  /\ UNCHANGED natural
  /\ UNCHANGED avg_sink_temp
  /\ UNCHANGED io_failed

(* ------------------- file operations that fail ----------------------- *)
\* main() 755-756: fopen of the power trace fails, fatal
OpenPowerTraceFails ==
  /\ pc = "open"
  /\ io_failed' = io_failed \cup {"fopen"}
  /\ Exit(1, "unable to open power trace input file", Len(ttrace))
  /\ UNCHANGED << ckpt, ttrace, ckpt0, written, partial, trace_num, do_transient, model,
                  ptrace, runVars, setupVars, stdout, natural, avg_sink_temp >>

\* save_last_trans_temp_mmap (148-185) when a write fails after cells
\* doubles (the disk is full): the results of fwrite and fclose are not
\* looked at, the file is left short and main goes on
SaveWriteFails ==
  /\ pc = "end"
  /\ lines > 0
  /\ trace_num = 0
  /\ last_temp.kind # "null"
  /\ calls' = calls \cup {"save"}
  /\ \E cells \in {0, Cells(model)} :
       ckpt' = [SaveFile(model, trace_num, ExtraNodes(model), CurCuboid, CurExtra, CurTemp)
                  EXCEPT !.data = SubSeq(@, 1, cells)]
  /\ partial' = FALSE
  /\ written' = [cuboid |-> CurCuboid, extra |-> CurExtra, temp |-> CurTemp]
  /\ io_failed' = io_failed \cup {"fwrite"}
  /\ pc' = "cleanup"
  /\ UNCHANGED << ttrace, log, ckpt0, trace_num, do_transient, model, ptrace, pin, names,
                  vals, lines, power, overall_power, last_temp, last_trans,
                  temp_initialised, first_invocation, mapped_region, mapped_size,
                  mapping_live, header_written, exit_code, diag,
                  setupVars, stdout, natural, avg_sink_temp >>

\* flush_updated_last_trans_temp (187-195) when msync fails: the trace index
\* is stored to the mapping, perror, and main goes on
FlushMsyncFails ==
  /\ pc = "end"
  /\ lines > 0
  /\ trace_num # 0
  /\ TraceNumGtZero(trace_num)
  /\ mapped_region # "NULL"
  /\ calls' = calls \cup {"flush"}
  /\ ckpt' = FlushHeader(ckpt, trace_num)
  /\ io_failed' = io_failed \cup {"msync"}
  /\ pc' = "cleanup"
  /\ UNCHANGED << ttrace, log, ckpt0, written, partial, trace_num, do_transient, model,
                  ptrace, pin, names, vals, lines, power, overall_power, last_temp,
                  last_trans, temp_initialised, first_invocation, mapped_region,
                  mapped_size, mapping_live, header_written, exit_code, diag,
                  setupVars, stdout, natural, avg_sink_temp >>

Next ==
  \/ \E inp \in Inputs : Start(inp)
  \/ Configure
  \/ AllocModel
  \/ Alloc
  \/ OpenTraces
  \/ WriteHeaders
  \/ Load
  \/ NoHeader
  \/ EndOfTrace
  \/ RowFatal
  \/ RowSteady
  \/ RowTransient
  \/ RowFault
  \/ NoPowerRows
  \/ Save
  \/ SaveNoTemp
  \/ Flush
  \/ Cleanup

Spec == Init /\ [][Next]_vars

SpecExt == InitExt /\ [][Next]_vars

\* the invocations in a directory where file operations can fail
IOInputs ==
  { Inv(<<0>>, TRUE, ModelA, PT_first), Inv(<<1>>, TRUE, ModelA, PT_first),
    Inv(<<0>>, FALSE, ModelA, PT_first), Inv(<<0>>, TRUE, ModelA, PT_short),
    Inv(<<0>>, TRUE, ModelA, PT_oneNoNL) }

NextIO ==
  \/ \E inp \in IOInputs : Start(inp)
  \/ Configure
  \/ AllocModel
  \/ Alloc
  \/ OpenTraces
  \/ WriteHeaders
  \/ Load
  \/ NoHeader
  \/ EndOfTrace
  \/ RowFatal
  \/ RowSteady
  \/ RowTransient
  \/ RowFault
  \/ NoPowerRows
  \/ Save
  \/ SaveNoTemp
  \/ Flush
  \/ Cleanup
  \/ OpenPowerTraceFails
  \/ SaveWriteFails
  \/ FlushMsyncFails

SpecIO == Init /\ [][NextIO]_vars

\* the setup of an invocation alone, over command lines and configuration
\* files
NextSetup ==
  \/ \E inp \in SetupInputs : Start(inp)
  \/ Configure
  \/ AllocModel

SpecSetup == Init /\ [][NextSetup]_vars

\* the invocations on well-formed and on malformed power traces
TraceInputs ==
  IOInputs
  \cup {Inv(t, TRUE, ModelA, pt) : t \in {<<0>>, <<1>>},
                                  pt \in {PT_fewNames, PT_none, PT_lead, PT_short}}
  \cup {Inv(<<0>>, TRUE, ModelA, PT_leadNames), Inv(<<0>>, TRUE, ModelA, PT_dupNames)}

NextTrace ==
  \/ \E inp \in TraceInputs : Start(inp)
  \/ Configure
  \/ AllocModel
  \/ Alloc
  \/ OpenTraces
  \/ WriteHeaders
  \/ Load
  \/ NoHeader
  \/ EndOfTrace
  \/ RowFatal
  \/ RowSteady
  \/ RowTransient
  \/ RowFault
  \/ NoPowerRows
  \/ Save
  \/ SaveNoTemp
  \/ Flush
  \/ Cleanup

SpecTrace == Init /\ [][NextTrace]_vars

(* ====================================================================== *)
(* Properties                                                             *)
(* ====================================================================== *)
IsValsLine(x) == x.kind = "vals"
NotBlank(ln) == ~IsBlank(ln)

\* the temperature rows invocation i appended to the trace file
TempRowsOf(i) == SelectSeq(SubSeq(ttrace, log[i].from + 1, log[i].to), IsValsLine)
\* the value lines of a power trace (its first line is the names line)
ValueRows(pt) == SelectSeq(Tail(pt.lines), NotBlank)

\* the invocation that is running or ended last
Cur == log[Len(log)]
Ended == pc = "idle" /\ Len(log) > 0
Completed(i) == log[i].exit = 0
HasEnded(i) == log[i].exit # -1

\* C1 (as claimed): chunked execution is equivalent to a single run.  For
\* every standalone invocation (trace_num = -1) that has ended on a trace of
\* 2K rows, and every pair of completed consecutive invocations trace_num = 0
\* and trace_num = 1 on the two K-row halves of that trace with the same
\* model, the temperature rows of the standalone run are the rows of the two
\* chunks, in order.
C1_ChunkedEqualsSingle ==
  \A i, j \in 1..Len(log) :
    ( /\ j + 1 <= Len(log)
      /\ log[i].t = -1 /\ log[i].o /\ HasEnded(i)
      /\ log[j].t = 0 /\ log[j].o /\ Completed(j)
      /\ log[j + 1].t = 1 /\ log[j + 1].o /\ Completed(j + 1)
      /\ log[i].m = log[j].m /\ log[i].m = log[j + 1].m
      /\ Len(ValueRows(log[j].pt)) = Len(ValueRows(log[j + 1].pt))
      /\ ValueRows(log[i].pt) = ValueRows(log[j].pt) \o ValueRows(log[j + 1].pt) )
    => TempRowsOf(i) = TempRowsOf(j) \o TempRowsOf(j + 1)

\* load has just mapped the file and set up the views
JustLoaded == pc = "loop" /\ lines = 0 /\ last_temp.kind = "mmap"

\* the invocation before the running one completed a save (trace_num = 0,
\* transient state present) for the model of the running one
LoadsAfterSave ==
  /\ JustLoaded
  /\ Len(log) >= 2
  /\ log[Len(log) - 1].t = 0 /\ trace_num = 1
  /\ log[Len(log) - 1].o
  /\ Completed(Len(log) - 1)
  /\ log[Len(log) - 1].m = model
  /\ written.temp # <<>>

\* C2: checkpoint round trip.  When load at trace n+1 follows save at trace
\* n with the same model, the views cuboid[l][r][c], extra[i] and
\* last_temp[i] expose exactly the values save took from memory.
C2_RoundTrip ==
  LoadsAfterSave =>
    /\ \A l \in 1..N_layers(model) : \A r \in 1..model.rows : \A c \in 1..model.cols :
         CurCuboid[l][r][c] = written.cuboid[l][r][c]
    /\ \A i \in 1..ExtraNodes(model) : CurExtra[i] = written.extra[i]
    /\ \A i \in 1..TotalNodes(model) : CurTemp[i] = written.temp[i]

\* C2 witness: a load after a save on the grid with two rows, the saved
\* cuboid and temperatures not all equal
C2_Witness ==
  /\ LoadsAfterSave
  /\ model.rows = 2
  /\ written.cuboid[1][1][1] # written.cuboid[1][2][1]
  /\ \E i \in 1..TotalNodes(model) : written.temp[i] # written.temp[1]

\* C3: load for trace N gets past the header test only if the magic is
\* 0x48504D44 and the stored trace index is N - 1; for every other header
\* the load is fatal, the mapping is released and no view is exposed.
C3_HeaderCheck ==
  ("load" \in calls /\ ckpt0.exists /\ ckpt0.hdr # <<>>) =>
     IF ckpt0.hdr[1] = 1213222212 /\ ckpt0.hdr[2] = trace_num - 1
       THEN diag # "Invalid file header"
       ELSE /\ pc = "idle" /\ exit_code # 0 /\ diag = "Invalid file header"
            /\ ~mapping_live
            /\ last_temp.kind # "mmap" /\ last_trans.kind # "mmap"

\* C3 witness: a file with a wrong magic and the expected trace index was
\* refused
C3_Witness ==
  /\ "load" \in calls /\ ckpt0.exists /\ ckpt0.hdr # <<>>
  /\ ckpt0.hdr[1] # 1213222212 /\ ckpt0.hdr[2] = trace_num - 1
  /\ diag = "Invalid file header"

\* the last completed invocation before the running one, 0 if none
LastCompleted ==
  IF \E j \in 1..(Len(log) - 1) : Completed(j)
    THEN CHOOSE j \in 1..(Len(log) - 1) :
           Completed(j) /\ \A k \in (j + 1)..(Len(log) - 1) : ~Completed(k)
    ELSE 0

\* C4: trace-index chain.  (1) After an invocation with trace_num = n >= 0
\* has run to completion the header's trace index is n.  (2) While rows are
\* still to be processed the index of an existing file is the one found at
\* the start.  (3) An invocation with trace_num = N > 0 gets past load only
\* if the last completed invocation had trace_num = N - 1.
C4_TraceIndexChain ==
  /\ (Ended /\ Cur.exit = 0 /\ Cur.t >= 0) =>
        (ckpt.exists /\ ckpt.hdr # <<>> /\ ckpt.hdr[2] = Cur.t)
  /\ (pc \in {"alloc", "open", "header", "loop"} /\ ckpt.exists /\ ckpt.hdr # <<>>) =>
        (ckpt0.exists /\ ckpt0.hdr # <<>> /\ ckpt.hdr[2] = ckpt0.hdr[2])
  /\ (pc \in {"loop", "end", "cleanup"} /\ "load" \in calls /\ trace_num > 0) =>
        (LastCompleted # 0 /\ log[LastCompleted].t = trace_num - 1)

\* C4 witness: chunk 2 got past load after chunks 0 and 1 completed
C4_Witness ==
  /\ pc = "loop" /\ "load" \in calls /\ trace_num = 2
  /\ Len(log) = 3 /\ Completed(1) /\ Completed(2)

\* C5: grid/checkpoint mismatch.  When load finds a header that passes the
\* magic and trace-index tests but whose (n_layers, rows, cols) differ from
\* the model's, the invocation ends with the grid-mismatch diagnostic and a
\* non-zero exit code, and the checkpoint file is as it was at the start.
C5_GridMismatch ==
  ( /\ "load" \in calls /\ ckpt0.exists /\ ckpt0.hdr # <<>>
    /\ ckpt0.hdr[1] = 1213222212 /\ ckpt0.hdr[2] = trace_num - 1
    /\ << ckpt0.hdr[3], ckpt0.hdr[4], ckpt0.hdr[5] >>
         # << Len(model.layers), model.rows, model.cols >> )
  => /\ Ended /\ diag = "Grid mismatch" /\ exit_code # 0
     /\ ckpt = ckpt0

\* C5 witness: a checkpoint of the 1x2 grid refused by the 2x1 model
C5_Witness ==
  /\ Ended /\ diag = "Grid mismatch" /\ trace_num > 0
  /\ ckpt0.hdr[4] = 1 /\ ckpt0.hdr[5] = 2 /\ model.rows = 2 /\ model.cols = 1
  /\ ckpt = ckpt0 /\ ckpt.exists

\* C6 (as claimed): initial state.  Once the solver has taken a step in an
\* invocation with transient output and trace_num -1 or 0, T_last had been
\* initialised (read_temp / set_temp) before it, and the solver was called
\* with first_invocation true for the first row and false for later rows;
\* with trace_num > 0 T_last is not re-initialised and first_invocation is
\* false for every row.
C6_InitialState ==
  (pc \in {"loop", "end", "cleanup"} /\ do_transient /\ lines >= 1) =>
     /\ trace_num \in {-1, 0} =>
          /\ temp_initialised
          /\ first_invocation <=> (lines = 1)
     /\ trace_num > 0 => (~temp_initialised /\ ~first_invocation)

\* C7 (as claimed): a standalone invocation (no -t, trace_num = -1) calls
\* none of load, save, flush, unload; it does not fail for want of a
\* checkpoint file and leaves the file as it found it; with transient output
\* it has written the header line by the time it reads the power rows.
C7_StandaloneNoCheckpoint ==
  (Len(log) > 0 /\ Cur.t = -1) =>
     /\ calls = {}
     /\ ckpt = ckpt0
     /\ diag \notin {"open", "mmap failed", "Invalid file header", "Grid mismatch",
                     "SIGSEGV", "SIGBUS"}
     /\ (Cur.o /\ pc \in {"loop", "end", "cleanup"}) => header_written

\* C8 (as claimed): partial checkpoints are rejected.  No invocation gets
\* past load on a file that an aborted invocation left with its state
\* advanced by one or more rows.
C8_PartialRejected ==
  (pc \in {"loop", "end", "cleanup"} /\ "load" \in calls /\ lines = 0) => ~partial

\* number of non-blank lines among lines a..b of a power trace
RECURSIVE NonBlankIn(_, _, _)
NonBlankIn(pt, a, b) ==
  IF a > b THEN 0
  ELSE (IF IsBlank(pt.lines[a]) THEN 0 ELSE 1) + NonBlankIn(pt, a + 1, b)

\* every value line of the trace has n columns
AllRowsFull(pt, n) == \A k \in 1..Len(ValueRows(pt)) : Len(ValueRows(pt)[k].vals) = n

\* the temperature rows the running invocation has appended so far
RowsSoFar == SelectSeq(SubSeq(ttrace, Cur.from + 1, Len(ttrace)), IsValsLine)

\* C9 (as claimed): row ordering.  In a transient invocation on a trace whose
\* value lines all have n columns, the rows appended so far are one per
\* non-blank value line read so far, and when the invocation has completed
\* there is one row per non-blank value line of the file, the last line
\* included.
C9_RowOrdering ==
  /\ (pc = "loop" /\ do_transient /\ AllRowsFull(ptrace, n_units)) =>
        /\ Len(RowsSoFar) = lines
        /\ lines = NonBlankIn(ptrace, 2, pin - 1)
  /\ (Ended /\ Cur.exit = 0 /\ Cur.o /\ AllRowsFull(Cur.pt, PowerUnits(Cur.m.layers))) =>
        Len(TempRowsOf(Len(log))) = Len(ValueRows(Cur.pt))

\* the permutations of 1..n
Perms(n) == {sg \in [1..n -> 1..n] : \A a, b \in 1..n : sg[a] = sg[b] => a = b}
\* column k of the permuted row is column sg[k] of the row
ApplyPerm(sg, row) == [k \in 1..Len(row) |-> row[sg[k]]]

\* line lb is line la with its columns permuted by sg
LinePermuted(lb, la, sg) ==
  /\ lb.lead = la.lead
  /\ Len(lb.names) = Len(la.names) /\ Len(lb.vals) = Len(la.vals)
  /\ Len(la.names) \in {0, Len(sg)} /\ Len(la.vals) \in {0, Len(sg)}
  /\ lb.names = ApplyPerm(sg, la.names)
  /\ lb.vals = ApplyPerm(sg, la.vals)

\* trace pb is trace pa with the columns of header and rows permuted by sg
TracePermuted(pb, pa, sg) ==
  /\ Len(pb.lines) = Len(pa.lines) /\ pb.finalNL = pa.finalNL
  /\ \A k \in 1..Len(pa.lines) : LinePermuted(pb.lines[k], pa.lines[k], sg)

\* sg moves columns only inside the column group of one power layer
WithinLayers(m, sg) == \A k \in 1..Len(sg) : LayerOfColumn(m, sg[k]) = LayerOfColumn(m, k)

\* run j is run i (a completed first chunk) on the trace permuted by sg
PermutedRuns(i, j, sg) ==
  /\ log[i].t = 0 /\ log[i].o /\ Completed(i)
  /\ log[j].t = 0 /\ log[j].o /\ HasEnded(j)
  /\ log[i].m = log[j].m
  /\ TracePermuted(log[j].pt, log[i].pt, sg)

\* the rows of run j are the rows of run i with sg applied
RowsPermuted(i, j, sg) ==
  /\ Len(TempRowsOf(j)) = Len(TempRowsOf(i))
  /\ \A k \in 1..Len(TempRowsOf(i)) :
        TempRowsOf(j)[k].vals = ApplyPerm(sg, TempRowsOf(i)[k].vals)

\* name of block b, and the block of the power layers that is called nm
UnitName(m, b) == m.layers[LayerOfBlock(m, b)].units[b - LayerBase(m, LayerOfBlock(m, b))]
NamedBlock(m, nm) ==
  CHOOSE b \in 1..Total_n_blocks(m) :
    m.layers[LayerOfBlock(m, b)].has_power /\ UnitName(m, b) = nm

Range(s) == {s[i] : i \in DOMAIN s}

\* the header names each power layer's unit names, in some order
NamesWithinLayers(m, nms) ==
  /\ Len(nms) = PowerUnits(m.layers)
  /\ \A l \in 1..N_layers(m) :
       m.layers[l].has_power =>
         {nms[i] : i \in LayerColumns(m, l)} = Range(m.layers[l].units)

\* the power row read last
RowRead == Chop(ptrace.lines[pin - 1].vals, ptrace.lines[pin - 1].lead)

\* after a row: block named by header column i holds the power of column i,
\* and output column i holds the temperature of that block
RowByName ==
  /\ \A i \in 1..n_units : power[NamedBlock(model, names[i])] = RowRead[i]
  /\ (do_transient /\ ViewsInFile(last_temp, last_trans, ckpt, model)) =>
        ttrace[Len(ttrace)] =
          OutVals([i \in 1..n_units |-> CurTemp[NamedBlock(model, names[i])]])

Resolved(name, dflt) ==
  IF Lookup(argv, name) # <<>> THEN Lookup(argv, name)[1]
  ELSE IF Lookup(config_file, name) # <<>> THEN Lookup(config_file, name)[1]
  ELSE dflt

\* the setup of the running invocation has read command line and file
Configured == pc \in {"model", "alloc"}

\* C11 (as claimed): option resolution.  Once command line and configuration
\* file are read, every option has the value of the command line if it is
\* given there, otherwise the value of the configuration file if it is given
\* there, otherwise its default: the global options (p, o, detailed_3D, v, t)
\* and the thermal-model keys (grid_rows, model_type) alike.
C11_OptionResolution ==
  Configured =>
    /\ global_config.p_infile = Resolved("p", NULLFILE)
    /\ global_config.t_outfile = Resolved("o", NULLFILE)
    /\ global_config.detailed_3D = Resolved("detailed_3D", "off")
    /\ volt_vector = Resolved("v", <<>>)
    /\ trace_num = ParseInt(Resolved("t", "-1"))[1]
    /\ thermal_config.grid_rows = ParseInt(Resolved("grid_rows", "1"))[1]
    /\ thermal_config.model_type = Resolved("model_type", "block")

\* the number of entries of the -v argument of the command line
VoltEntries == (Len(Lookup(argv, "v")[1]) + 1) \div 4

\* C12 (as claimed): voltage vector.  For a -v argument x.y,...,x.y of k
\* entries, 1 <= k <= 128, the string is stored within volt_vector (its
\* characters and the terminating NUL), exactly k entries of volt are
\* written, none outside volt[0..127], and entry j is 10*x_j + y_j.
C12_VoltVector ==
  (Len(log) > 0 /\ Lookup(argv, "v") # <<>> /\ VoltEntries \in 1..VOLT_SIZE) =>
    /\ Len(volt_vector) + 1 <= VOLT_VECTOR_SIZE
    /\ diag # "SIGSEGV"
    /\ Len(volt) = VoltEntries
    /\ Len(volt) <= VOLT_SIZE
    /\ \A j \in 0..(VoltEntries - 1) : volt[j + 1] = 10 * VoltX(j) + VoltY(j)

\* the configuration errors of the running invocation, told from its
\* command line and configuration file
MissingP == Resolved("p", NULLFILE) = NULLFILE
NoFlpNoLcf == Resolved("f", NULLFILE) = NULLFILE /\ Resolved("grid_layer_file", NULLFILE) = NULLFILE
Unparsable ==
  \E name \in {"t", "grid_rows", "use_microchannels"} :
    Lookup(argv, name) # <<>> /\ ParseInt(Lookup(argv, name)[1]) = <<>>
BadDetailed3D == Lookup(argv, "detailed_3D") # <<>> /\ Lookup(argv, "detailed_3D")[1] \notin {"on", "off"}
Detailed3DOn == Lookup(argv, "detailed_3D") = << "on" >>
GridModel == Resolved("model_type", "block") = GRID_MODEL_STR
HasLcf == Resolved("grid_layer_file", NULLFILE) # NULLFILE
Microchannels == Lookup(argv, "use_microchannels") \notin {<<>>, << "0" >>}
ConfigurationError ==
  \/ MissingP
  \/ NoFlpNoLcf
  \/ Unparsable
  \/ BadDetailed3D
  \/ Detailed3DOn /\ (~GridModel \/ ~HasLcf)
  \/ Microchannels /\ ~(GridModel /\ Detailed3DOn)

\* C16 (as claimed): configuration errors are fatal at setup.  An invocation
\* whose configuration has one of the listed errors never gets past the
\* setup (it reads no power row), and when it has ended it has ended with a
\* non-zero exit.
C16_ConfigErrorsFatal ==
  (Len(log) > 0 /\ argv # <<>> /\ ConfigurationError) =>
    /\ pc \in {"idle", "config", "model"}
    /\ pc = "idle" => Cur.exit # 0

\* the power rows the invocation has read, as read_vals returned them
RowsReadOf(pt, n) ==
  [k \in 1..n |-> Chop(ValueRows(pt)[k].vals, ValueRows(pt)[k].lead)]
\* the values of column i of those rows
ColumnOf(rows, i) == [k \in 1..Len(rows) |-> rows[k][i]]

\* the process has run to the end of main and returned 0
CompletedNow == Ended /\ exit_code = 0 /\ diag = "Simulation complete"

C14_ThermalRunaway ==
  (natural /\ avg_sink_temp > MAX_SINK_TEMP) => (pc = "idle" /\ exit_code # 0)

\* C15 (as claimed): I/O failures are fatal at first occurrence.  A process
\* in which a file operation has failed is not running any more and has
\* ended with a non-zero exit; none has returned 0.
C15_IOFailuresFatal ==
  io_failed # {} => (pc = "idle" /\ exit_code # 0)

\* a save of the running invocation has written the checkpoint file
Saved == pc = "cleanup" /\ "save" \in calls

\* position (1-based) of cell (l, r, c) among the doubles of the file:
\* layer-major, then row-major
CellPos(m, l, r, c) == ((l - 1) * m.rows + (r - 1)) * m.cols + c

\* header and the cuboid and extra sections of the file, as the claim and
\* the code agree on them
HeaderAndGrid(num_extra) ==
  /\ ckpt.exists
  /\ ckpt.hdr = << MAGIC_MMAP_FILE, trace_num, N_layers(model), model.rows, model.cols,
                   num_extra >>
  /\ 4 * Len(ckpt.hdr) = 24
  /\ \A l \in 1..N_layers(model) : \A r \in 1..model.rows : \A c \in 1..model.cols :
       ckpt.data[CellPos(model, l, r, c)] = written.cuboid[l][r][c]
  /\ \A i \in 1..num_extra : ckpt.data[Cells(model) + i] = written.extra[i]

ChunkSequence(i) ==
  /\ log[1].from = 0
  /\ \A j \in 1..i :
       log[j].t = j - 1 /\ log[j].o /\ Completed(j) /\ log[j].pt.finalNL

\* the power rows of the first i invocations of the log
RECURSIVE RowsOfChunks(_)
RowsOfChunks(i) ==
  IF i = 0 THEN 0 ELSE RowsOfChunks(i - 1) + Len(ValueRows(log[i].pt))

\* the first upto lines of the temperature trace are one names line and rows
\* value lines
TraceShape(upto, rows) ==
  /\ upto = rows + 1
  /\ ttrace[1].kind = "names"
  /\ \A k \in 2..upto : ttrace[k].kind = "vals"

\* a standalone invocation with transient output that got as far as the
\* names of the power trace has ended
StandaloneEnded ==
  Ended /\ Cur.t = -1 /\ Cur.o /\ Cur.from = 0 /\ Len(names) = n_units

\* C18 (as claimed): trace shape.  After a standalone transient invocation,
\* and after a completed chunk sequence trace_num = 0, 1, ..., k, the
\* temperature trace is one header line of names followed by one value line
\* per power row processed.
C18_TraceShape ==
  /\ StandaloneEnded => TraceShape(Len(ttrace), lines)
  /\ \A i \in 1..Len(log) :
       ChunkSequence(i) => TraceShape(log[i].to, RowsOfChunks(i))

\* the columns a line of a power trace has
Columns(ln) == Len(ln.names) + Len(ln.vals)

\* value row k of power trace pt has as many columns as model m has units
GoodRow(pt, m, k) == Columns(ValueRows(pt)[k]) = PowerUnits(m.layers)

\* the names line of pt has as many names as model m has units
GoodHeader(pt, m) == Columns(pt.lines[1]) = PowerUnits(m.layers)

\* a malformed power trace: wrong number of names, a row with a wrong number
\* of columns, or no value row
Malformed(pt, m) ==
  \/ ~GoodHeader(pt, m)
  \/ ValueRows(pt) = <<>>
  \/ \E k \in 1..Len(ValueRows(pt)) : ~GoodRow(pt, m, k)

\* the rows of pt that precede its first offence
RowsBeforeOffence(pt, m) ==
  IF ~GoodHeader(pt, m) THEN 0
  ELSE Cardinality({k \in 1..Len(ValueRows(pt)) :
                      \A j \in 1..k : GoodRow(pt, m, j)})

\* checkpoint file f exists and its header carries trace index i
IndexIs(f, i) == f.exists /\ Len(f.hdr) >= 2 /\ f.hdr[2] = i

\* C19 (as claimed): malformed power traces are fatal.  An invocation on a
\* trace whose names line has not n names, or that has a value row with not n
\* columns, or that has no value row, ends with a failure; it emits no
\* temperature row for the offending row or after it, and when trace_num > 0
\* and the checkpoint carried index trace_num - 1 it still does.
C19_MalformedFatal ==
  (Ended /\ Cur.pt.finalNL /\ Malformed(Cur.pt, Cur.m)) =>
    /\ Cur.exit # 0
    /\ Len(TempRowsOf(Len(log))) <= RowsBeforeOffence(Cur.pt, Cur.m)
    /\ (Cur.t > 0 /\ IndexIs(ckpt0, Cur.t - 1)) => IndexIs(ckpt, Cur.t - 1)

\* the first chunk with transient output is between the deletion of an old
\* checkpoint (773-781) and the save after the last row (873-882)
BetweenDeletionAndSave ==
  trace_num = 0 /\ do_transient /\ header_written /\ pc \in {"loop", "end"}

\* a first chunk with transient output has aborted after its header branch
FirstChunkAborted ==
  Ended /\ Cur.t = 0 /\ Cur.o /\ Cur.exit # 0 /\ header_written

\* C20: first-chunk cleanup.  With trace_num = 0 and transient output no
\* checkpoint file exists from the deletion of the old one until the save
\* after the last row, so an invocation that aborts in between leaves no
\* checkpoint a later invocation could load; the save then writes a file
\* with trace index 0.
C20_FirstChunkCleanup ==
  /\ BetweenDeletionAndSave => ~ckpt.exists
  /\ FirstChunkAborted => ~ckpt.exists
  /\ (Saved /\ trace_num = 0 /\ do_transient) => IndexIs(ckpt, 0)

\* a first chunk found an old checkpoint, processed a row and aborted
C20_Witness ==
  FirstChunkAborted /\ ckpt0.exists /\ lines >= 1 /\ ~ckpt.exists

\* C21 (as claimed): checkpoint operations are well-ordered.  In every
\* invocation flush and unload are called only on a region that load mapped
\* earlier in the same invocation, never on the initial NULL region, and save
\* is called only when the transient state it writes has been allocated.
C21_WellOrdered ==
  /\ "flush" \in calls => ("load" \in calls /\ mapped_region # "NULL")
  /\ "unload" \in calls => ("load" \in calls /\ mapped_region # "NULL")
  /\ "save" \in calls => last_temp.kind # "null"

\* load has passed its header checks and set up the views (125-144)
ViewsSetUp ==
  pc \in {"loop", "end", "cleanup"} /\ mapping_live /\ last_temp.kind = "mmap"

PowerBlocks(m) ==
  {b \in 1..Total_n_blocks(m) : m.layers[LayerOfBlock(m, b)].has_power}

\* the columns of the trace whose value the loop of 802-811 stores in block b
ColumnsOf(b) == {i \in 1..n_units : BlockOfColumn(model, names, i) = b}

\* a value row has been permuted into the power vector
RowAssigned == pc = "loop" /\ lines > 0

\* C23 (as claimed): complete power assignment.  After every value row under
\* a header the name-count check accepted, every block of a power layer has
\* its entry of the power vector assigned from exactly one column of the
\* row, the column whose header name is the block's name.
C23_CompleteAssignment ==
  RowAssigned =>
    \A b \in PowerBlocks(model) :
       /\ Cardinality(ColumnsOf(b)) = 1
       /\ \A i \in ColumnsOf(b) :
            names[i] = UnitName(model, b) /\ power[b] = RowRead[i]

============================================================================
